---- MODULE Spec2Model ----
(***************************************************************************)
(* Venuu event-discovery front end.                                        *)
(*                                                                         *)
(*  SpecEvents : EventsApi.getEvents, the time-bounded cache with its      *)
(*               primary fetch and its fallback fetch, under overlapping   *)
(*               invocations on the one event loop.                        *)
(*  SpecPrefs  : UserPreferencesApi over the 'venuu-preferences' entry of  *)
(*               local storage, with storage reads/writes that may throw.  *)
(*  SpecHistory: addSearchToHistory / clearSearchHistory with eleven       *)
(*               distinct queries, so that the cap of ten is reached.      *)
(*  SpecFavorites: VenuuApp's own favourites ('venuu-favorites') next to   *)
(*               UserPreferencesApi on the same local storage.             *)
(*  SpecFilters: VenuuApp's search/filter/sort handlers and applyFilters.  *)
(*  SpecSearch : EventsApi.searchEvents over the loaded events.            *)
(*  SpecDerived: EventsApi.getEventsByCategory and getFeaturedEvents.      *)
(*  SpecEventsFair: SpecEvents with every started fetch settling.          *)
(*  SpecDebounce, SpecThrottle: the functions Utils.debounce and           *)
(*               Utils.throttle return, with timers that may run late.     *)
(*  SpecLogin  : the login form and the nav link over 'userEmail'.         *)
(***************************************************************************)
EXTENDS Integers, Sequences, FiniteSets, TLC

VARIABLES
    clock,            \* Date.now(), in ms
    eventsCache,      \* EventsApi.eventsCache
    lastFetch,        \* EventsApi.lastFetch
    pc,               \* per getEvents invocation: "idle" (not made yet), "primary"
                      \* (suspended at line 127), "fallback" (suspended at line
                      \* 136), or the line it left by: "return122", "return130",
                      \* "return140", "throw143"
    now,              \* per invocation: the local `now` of line 118
    primaryResp,      \* per invocation: what its primary fetch got
    fallbackResp,     \* per invocation: what its fallback fetch got
    result,           \* per invocation: the value the promise resolved with
    primaryFetches,   \* per invocation: fetches issued to /api/events
    fallbackFetches,  \* per invocation: fetches issued to ./api-data.json
    cacheWriter,      \* the invocation whose assignment eventsCache holds (0: none)
    stampWriter,      \* the invocation whose assignment lastFetch holds (0: none)
    storedAt,         \* Date.now() when eventsCache was last assigned
    prefsEntry,       \* localStorage entry 'venuu-preferences'
    lastOp,           \* the UserPreferencesApi method called last ("none": none yet)
    returned,         \* what that call returned
    thrown,           \* whether that call threw to its caller
    readFailed,       \* whether a localStorage.getItem of that call threw
    writeFailed,      \* whether the localStorage.setItem of that call threw
    lastArg,          \* the argument of that call (undefined: it takes none)
    prevEntry,        \* the 'venuu-preferences' entry as that call found it
    recency,          \* kept where the history is followed call by call: the
                      \* non-blank queries passed to addSearchToHistory since the
                      \* last clearSearchHistory, latest call first, each once
    favoritesEntry,   \* localStorage entry 'venuu-favorites'
    appOp,            \* the VenuuApp favorites method called last ("none": none yet)
    appReturned,      \* what that call returned
    appThrown,        \* whether that call threw to its caller
    loadedEvents,     \* VenuuApp.events, and the list getEvents() resolves with
    filteredEvents,   \* VenuuApp.filteredEvents
    searchQuery,      \* VenuuApp.searchQuery
    currentFilters,   \* VenuuApp.currentFilters
    search,           \* the last EventsApi.searchEvents call: its parameters
                      \* and the list it resolved with
    derived,          \* the last getEventsByCategory or getFeaturedEvents call:
                      \* its arguments, the time of the call and its result
    cleared,          \* whether the handler VenuuApp ran last is clearAllFilters
    tnow,             \* the time the timers of Utils go by, in ms
    debounced,        \* a function made by Utils.debounce: its immediate flag,
                      \* its timeout, and the calls and invocations so far
    throttled,        \* a function made by Utils.throttle: its inThrottle flag,
                      \* its timer, and the calls and invocations so far
    userEmail,        \* localStorage entry 'userEmail'
    tabs,             \* the open pages: which page, the text of #nav-login and
                      \* the userEmail entry found when the page loaded
    lastEvent         \* the last login submit or nav click, and what it did

eventsVars == <<clock, eventsCache, lastFetch, pc, now, primaryResp, fallbackResp,
                result, primaryFetches, fallbackFetches, cacheWriter, stampWriter,
                storedAt>>

\* the record of the last UserPreferencesApi call
prefsCallVars == <<lastOp, returned, thrown, readFailed, writeFailed,
                   lastArg, prevEntry, recency>>

prefsVars == <<prefsEntry, prefsCallVars>>

\* the record of the last VenuuApp favorites call
appVars == <<appOp, appReturned, appThrown>>

\* the event list with its filters and searches
filterVars == <<loadedEvents, filteredEvents, searchQuery, currentFilters, search,
                derived, cleared>>

\* the timers of Utils
timerVars == <<tnow, debounced, throttled>>

\* the login page and the nav link
loginVars == <<userEmail, tabs, lastEvent>>

vars == <<eventsVars, prefsVars, favoritesEntry, appVars, filterVars, timerVars,
          loginVars>>

\* what the operations of EventsApi.getEvents leave alone
nonEventsVars == <<prefsVars, favoritesEntry, appVars, filterVars, timerVars,
                   loginVars>>

\* what the operations of UserPreferencesApi leave alone, local storage apart
nonPrefsVars == <<eventsVars, appVars, filterVars, timerVars, loginVars>>

\* what the favorites methods of VenuuApp leave alone, local storage apart
nonAppVars == <<eventsVars, prefsCallVars, filterVars, timerVars, loginVars>>

\* what filtering and searching leave alone
nonFilterVars == <<eventsVars, prefsVars, favoritesEntry, appVars, timerVars,
                   loginVars>>

\* what the timers of Utils leave alone
nonTimerVars == <<eventsVars, prefsVars, favoritesEntry, appVars, filterVars,
                  loginVars>>

\* what the login page and the nav link leave alone
nonLoginVars == <<eventsVars, prefsVars, favoritesEntry, appVars, filterVars,
                  timerVars>>

-----------------------------------------------------------------------------
(* Bounds *)

\* getEvents invocations in one run
MaxCalls == 2

\* the clock stops advancing here
MaxClock == 600000

\* the time of the timers stops here, and the calls made of a debounced or
\* throttled function
MaxTime == 6
MaxTimedCalls == 3

-----------------------------------------------------------------------------
(* EventsApi: values *)

Calls == 1..MaxCalls

\* private cacheExpiry: number = 5 * 60 * 1000
cacheExpiry == 5 * 60 * 1000

\* the steps by which time passes between two steps of the program: just
\* under the freshness window, and exactly the freshness window
TickSteps == {cacheExpiry - 1, cacheExpiry}

\* `null`, a value that is no list
null == <<"null">>

\* the event lists a server can send (lists of event ids); [] is one of them
Payloads == {<<>>, <<"a">>}

\* What a fetch can come to.  kind "networkError": fetch() rejects.
\* Otherwise it resolves with a Response: `ok` is response.ok, and the body
\* either parses as JSON (kind "json", to the list `json`) or does not
\* (kind "badBody": response.json() rejects).
NetworkError == [kind |-> "networkError", ok |-> FALSE, json |-> <<>>]
BadBody(ok) == [kind |-> "badBody", ok |-> ok, json |-> <<>>]
JsonBody(ok, list) == [kind |-> "json", ok |-> ok, json |-> list]

\* the responses tried: a rejected fetch, a 200 whose body is no JSON, a
\* non-2xx status carrying a JSON list, and a 200 carrying each list
Responses ==
    {NetworkError, BadBody(TRUE), JsonBody(FALSE, <<"a">>)}
      \cup {JsonBody(TRUE, l) : l \in Payloads}

\* no fetch issued / fetch issued and not yet settled
NoFetch == [kind |-> "none", ok |-> FALSE, json |-> <<>>]
Pending == [kind |-> "pending", ok |-> FALSE, json |-> <<>>]

\* the outcome of an awaited call: it threw, or it returned `value`
Threw == [threw |-> TRUE, value |-> null]
Returned(v) == [threw |-> FALSE, value |-> v]

\* JavaScript truthiness of eventsCache: null is falsy, every array
\* (the empty one too) is truthy
Truthy(v) == v # null

\* request with the response.ok check inverted
request_invertedOk(resp) ==
    IF resp.kind = "networkError" THEN Threw
    ELSE IF resp.ok THEN Threw
    ELSE IF resp.kind = "badBody" THEN Threw
    ELSE Returned(resp.json)

\* request without the response.ok check
request_noStatusCheck(resp) ==
    IF resp.kind = "networkError" THEN Threw
    ELSE IF resp.kind = "badBody" THEN Threw
    ELSE Returned(resp.json)

\* ApiService.request (through ApiService.get): fetch, the response.ok
\* check, then response.json(); every failure is logged and rethrown
request(resp) ==
    IF resp.kind = "networkError" THEN Threw
    ELSE IF ~resp.ok THEN Threw
    ELSE IF resp.kind = "badBody" THEN Threw
    ELSE Returned(resp.json)

\* the fallback turning a body that does not parse into an empty list
fetchLocal_swallowsBadBody(resp) ==
    IF resp.kind = "networkError" THEN Threw
    ELSE IF resp.kind = "badBody" THEN Returned(<<>>)
    ELSE Returned(resp.json)

\* the fallback of getEvents: fetch("./api-data.json") then response.json(),
\* with no look at response.ok
fetchLocal(resp) ==
    IF resp.kind = "networkError" THEN Threw
    ELSE IF resp.kind = "badBody" THEN Threw
    ELSE Returned(resp.json)

-----------------------------------------------------------------------------
(* EventsApi: operations *)

InitEvents ==
    /\ clock = 0
    /\ eventsCache = null
    /\ lastFetch = 0
    /\ pc = [c \in Calls |-> "idle"]
    /\ now = [c \in Calls |-> 0]
    /\ primaryResp = [c \in Calls |-> NoFetch]
    /\ fallbackResp = [c \in Calls |-> NoFetch]
    /\ result = [c \in Calls |-> null]
    /\ primaryFetches = [c \in Calls |-> 0]
    /\ fallbackFetches = [c \in Calls |-> 0]
    /\ cacheWriter = 0
    /\ stampWriter = 0
    /\ storedAt = 0

\* time passes
Tick(d) ==
    /\ clock + d <= MaxClock
    /\ clock' = clock + d
    /\ UNCHANGED <<eventsCache, lastFetch, pc, now, primaryResp, fallbackResp,
                   result, primaryFetches, fallbackFetches, cacheWriter, stampWriter,
                   storedAt>>
    /\ UNCHANGED nonEventsVars

\* a store that forgets the timestamp
StoreCache_listOnly(c, events) ==
    /\ eventsCache' = events
    /\ cacheWriter' = c
    /\ storedAt' = clock
    /\ UNCHANGED <<lastFetch, stampWriter>>

\* a store that keeps the entry with the newer timestamp
StoreCache_keepNewest(c, events) ==
    IF now[c] >= lastFetch
    THEN /\ eventsCache' = events
         /\ lastFetch' = now[c]
         /\ cacheWriter' = c
         /\ stampWriter' = c
         /\ storedAt' = clock
    ELSE UNCHANGED <<eventsCache, lastFetch, cacheWriter, stampWriter, storedAt>>

\* lines 128-129 and 138-139: this.eventsCache = events; this.lastFetch = now;
StoreCache(c, events) ==
    /\ eventsCache' = events
    /\ lastFetch' = now[c]
    /\ cacheWriter' = c
    /\ stampWriter' = c
    /\ storedAt' = clock

\* catch blocks that drop the cache
InvalidateCache ==
    /\ eventsCache' = null
    /\ lastFetch' = 0
    /\ cacheWriter' = 0
    /\ stampWriter' = 0
    /\ storedAt' = 0

\* the catch blocks of lines 131-133 and 141-144 assign nothing
KeepCache == UNCHANGED <<eventsCache, lastFetch, cacheWriter, stampWriter, storedAt>>

\* the cache test with the window's end included
CacheValid_inclusive(cache, stamp, t) == Truthy(cache) /\ t - stamp <= cacheExpiry

\* the cache test of line 121
CacheValid(cache, stamp, t) == Truthy(cache) /\ t - stamp < cacheExpiry

\* getEvents, lines 117-127: from the call to the first await.  Invocations
\* are numbered in the order they are made.
GetEvents(c) ==
    /\ pc[c] = "idle"
    /\ \A d \in Calls : d < c => pc[d] # "idle"
    /\ now' = [now EXCEPT ![c] = clock]
    /\ IF CacheValid(eventsCache, lastFetch, clock)
       THEN /\ pc' = [pc EXCEPT ![c] = "return122"]
            /\ result' = [result EXCEPT ![c] = eventsCache]
            /\ UNCHANGED <<primaryResp, primaryFetches>>
       ELSE /\ pc' = [pc EXCEPT ![c] = "primary"]
            /\ primaryResp' = [primaryResp EXCEPT ![c] = Pending]
            /\ primaryFetches' = [primaryFetches EXCEPT ![c] = @ + 1]
            /\ UNCHANGED result
    /\ UNCHANGED <<clock, eventsCache, lastFetch, fallbackResp, fallbackFetches,
                   cacheWriter, stampWriter, storedAt>>
    /\ UNCHANGED nonEventsVars

\* a getEvents that asks the primary source again when it fails
PrimarySettles_retries(c, resp) ==
    /\ pc[c] = "primary"
    /\ primaryFetches[c] < 3
    /\ LET r == request(resp) IN
       IF ~r.threw
       THEN /\ StoreCache(c, r.value)
            /\ pc' = [pc EXCEPT ![c] = "return130"]
            /\ result' = [result EXCEPT ![c] = r.value]
            /\ primaryResp' = [primaryResp EXCEPT ![c] = resp]
            /\ UNCHANGED primaryFetches
       ELSE /\ primaryResp' = [primaryResp EXCEPT ![c] = Pending]
            /\ primaryFetches' = [primaryFetches EXCEPT ![c] = @ + 1]
            /\ KeepCache
            /\ UNCHANGED <<pc, result>>
    /\ UNCHANGED <<clock, now, fallbackResp, fallbackFetches>>
    /\ UNCHANGED nonEventsVars

\* getEvents, lines 127-136: the primary fetch settles with resp; on success
\* the list is stored and returned, on failure the fallback fetch is issued
PrimarySettles(c, resp) ==
    /\ pc[c] = "primary"
    /\ primaryResp' = [primaryResp EXCEPT ![c] = resp]
    /\ LET r == request(resp) IN
       IF ~r.threw
       THEN /\ StoreCache(c, r.value)
            /\ pc' = [pc EXCEPT ![c] = "return130"]
            /\ result' = [result EXCEPT ![c] = r.value]
            /\ UNCHANGED <<fallbackResp, fallbackFetches>>
       ELSE /\ pc' = [pc EXCEPT ![c] = "fallback"]
            /\ fallbackResp' = [fallbackResp EXCEPT ![c] = Pending]
            /\ fallbackFetches' = [fallbackFetches EXCEPT ![c] = @ + 1]
            /\ KeepCache
            /\ UNCHANGED result
    /\ UNCHANGED <<clock, now, primaryFetches>>
    /\ UNCHANGED nonEventsVars

\* getEvents, lines 136-144: the fallback fetch settles with resp; on success
\* the list is stored and returned, on failure the call throws
\* Error("Unable to load events data")
FallbackSettles(c, resp) ==
    /\ pc[c] = "fallback"
    /\ fallbackResp' = [fallbackResp EXCEPT ![c] = resp]
    /\ LET r == fetchLocal(resp) IN
       IF ~r.threw
       THEN /\ StoreCache(c, r.value)
            /\ pc' = [pc EXCEPT ![c] = "return140"]
            /\ result' = [result EXCEPT ![c] = r.value]
       ELSE /\ pc' = [pc EXCEPT ![c] = "throw143"]
            /\ KeepCache
            /\ UNCHANGED result
    /\ UNCHANGED <<clock, now, primaryResp, primaryFetches, fallbackFetches>>
    /\ UNCHANGED nonEventsVars

NextEvents ==
    \/ \E d \in TickSteps : Tick(d)
    \/ \E c \in Calls : GetEvents(c)
    \/ \E c \in Calls, resp \in Responses : PrimarySettles(c, resp)
    \/ \E c \in Calls, resp \in Responses : FallbackSettles(c, resp)

-----------------------------------------------------------------------------
(* UserPreferencesApi: values *)

\* the keys of interface UserPreferences
Keys == {"favorites", "theme", "language", "notifications", "searchHistory"}

\* event ids passed to the favorites methods
EventIds == {"e1", "e2"}

\* search queries, as the lists of their characters: "", " ", "a", "b"
Queries == {<<>>, <<" ">>, <<"a">>, <<"b">>}

\* history.slice(0, 10)
HistoryLimit == 10

\* an object without keys
EmptyObject == [k \in {} |-> TRUE]

\* What localStorage holds under storageKey: nothing (getItem gives null),
\* the empty string, a text that is no JSON, or the JSON text of an object
\* (kept as the object it denotes).
AbsentEntry == [kind |-> "absent", obj |-> EmptyObject]
EmptyStringEntry == [kind |-> "empty", obj |-> EmptyObject]
MalformedEntry == [kind |-> "malformed", obj |-> EmptyObject]
ObjectEntry(o) == [kind |-> "object", obj |-> o]

\* the entries a page can find at load: left by an earlier session of this
\* code or an older version of it, or damaged from outside
InitialEntries ==
    {AbsentEntry, EmptyStringEntry, MalformedEntry,
     ObjectEntry([theme |-> "dark"]),
     ObjectEntry([favorites |-> <<"e2">>, language |-> "is"])}

\* the arguments tried for savePreferences
Partials ==
    {[theme |-> "dark"], [notifications |-> FALSE],
     [favorites |-> <<>>, language |-> "is"]}

\* const defaultPrefs of getPreferences
defaultPrefs ==
    [favorites |-> <<>>, theme |-> "light", language |-> "en",
     notifications |-> TRUE, searchHistory |-> <<>>]

\* object spread { ...a, ...b }: the keys of both, b's value where b has the key
Spread(a, b) ==
    [k \in DOMAIN a \cup DOMAIN b |-> IF k \in DOMAIN b THEN b[k] ELSE a[k]]

\* Array.prototype.includes
Includes(list, x) == \E i \in 1..Len(list) : list[i] = x

\* the place of x in list
Pos(list, x) == CHOOSE i \in 1..Len(list) : list[i] = x

\* Array.prototype.filter((item) => item !== x)
RECURSIVE Without(_, _)
Without(list, x) ==
    IF list = <<>> THEN <<>>
    ELSE IF Head(list) = x THEN Without(Tail(list), x)
    ELSE <<Head(list)>> \o Without(Tail(list), x)

\* Array.prototype.slice(0, n)
Slice(list, n) == SubSeq(list, 1, IF Len(list) < n THEN Len(list) ELSE n)

\* String.prototype.trim over the characters of a query
RECURSIVE TrimStart(_)
TrimStart(q) ==
    IF q # <<>> /\ Head(q) = " " THEN TrimStart(Tail(q)) ELSE q

RECURSIVE TrimEnd(_)
TrimEnd(q) ==
    IF q # <<>> /\ q[Len(q)] = " " THEN TrimEnd(SubSeq(q, 1, Len(q) - 1)) ELSE q

Trim(q) == TrimEnd(TrimStart(q))

\* localStorage.getItem(storageKey): throws (storage denied) or gives the entry
getItem(entry, fails) == IF fails THEN Threw ELSE Returned(entry)

\* `stored ? ... : ...`: null and the empty string are falsy
TruthyText(entry) == entry.kind \notin {"absent", "empty"}

\* JSON.parse of a stored text: throws on a text that is no JSON
JSONparse(entry) ==
    IF entry.kind = "object" THEN Returned(entry.obj) ELSE Threw

\* JSON.stringify of a preferences object
JSONstringify(o) == ObjectEntry(o)

\* localStorage.setItem(storageKey, text): throws (quota, storage denied)
\* and stores nothing, or stores the text
setItem(text, fails) == IF fails THEN Threw ELSE Returned(text)

\* what a method comes to: whether it threw to its caller, the entry it leaves
\* in storage, the value it returns, and whether its getItem / setItem threw
Outcome(t, e, v, rf, wf) ==
    [threw |-> t, entry |-> e, value |-> v, readFailed |-> rf, writeFailed |-> wf]

\* `undefined`, the value of a method that returns nothing
undefined == [undefined |-> TRUE]

\* UserPreferencesApi.storageKey, line 334
storageKey == "venuu-preferences"

\* the key a VenuuApp that shared the preferences entry would use
favoritesKey_shared == "venuu-preferences"

\* the key of VenuuApp.toggleFavorite and getFavorites (part_004 lines 407, 415)
favoritesKey == "venuu-favorites"

\* the localStorage entry under key
ItemAt(key) ==
    IF key = storageKey THEN prefsEntry
    ELSE IF key = favoritesKey THEN favoritesEntry
    ELSE AbsentEntry

\* local storage after entry was left under key: the other entries stay
StoreAt(key, entry) ==
    /\ prefsEntry' = IF key = storageKey THEN entry ELSE prefsEntry
    /\ favoritesEntry' =
           IF key # storageKey /\ key = favoritesKey THEN entry ELSE favoritesEntry

-----------------------------------------------------------------------------
(* UserPreferencesApi: methods *)

\* getPreferences whose merge lets the defaults win over the stored keys
getPreferences_defaultsWin(entry, readFails) ==
    LET stored == getItem(entry, readFails) IN
    IF stored.threw THEN Returned(defaultPrefs)
    ELSE IF ~TruthyText(stored.value) THEN Returned(defaultPrefs)
    ELSE LET parsed == JSONparse(stored.value) IN
         IF parsed.threw THEN Returned(defaultPrefs)
         ELSE Returned(Spread(parsed.value, defaultPrefs))

\* getPreferences without its try/catch
getPreferences_noCatch(entry, readFails) ==
    LET stored == getItem(entry, readFails) IN
    IF stored.threw THEN Threw
    ELSE IF ~TruthyText(stored.value) THEN Returned(defaultPrefs)
    ELSE LET parsed == JSONparse(stored.value) IN
         IF parsed.threw THEN Threw
         ELSE Returned(Spread(defaultPrefs, parsed.value))

\* getPreferences, lines 339-355
getPreferences(entry, readFails) ==
    LET stored == getItem(entry, readFails) IN
    IF stored.threw THEN Returned(defaultPrefs)
    ELSE IF ~TruthyText(stored.value) THEN Returned(defaultPrefs)
    ELSE LET parsed == JSONparse(stored.value) IN
         IF parsed.threw THEN Returned(defaultPrefs)
         ELSE Returned(Spread(defaultPrefs, parsed.value))

\* what getPreferences() gives on a store holding entry
View(entry) == getPreferences(entry, FALSE).value

\* savePreferences that stores its argument alone, without the merge onto
\* the current preferences
savePreferences_noMerge(entry, preferences, readFails, writeFails) ==
    LET currentPrefs == getPreferences(entry, readFails) IN
    IF currentPrefs.threw
    THEN Outcome(FALSE, entry, undefined, readFails, FALSE)
    ELSE LET written == setItem(JSONstringify(preferences), writeFails)
         IN  IF written.threw
             THEN Outcome(FALSE, entry, undefined, readFails, TRUE)
             ELSE Outcome(FALSE, written.value, undefined, readFails, FALSE)

\* savePreferences, lines 360-368: everything sits in the try; whatever is
\* thrown there is logged and dropped
savePreferences(entry, preferences, readFails, writeFails) ==
    LET currentPrefs == getPreferences(entry, readFails) IN
    IF currentPrefs.threw
    THEN Outcome(FALSE, entry, undefined, readFails, FALSE)
    ELSE LET updatedPrefs == Spread(currentPrefs.value, preferences)
             written == setItem(JSONstringify(updatedPrefs), writeFails)
         IN  IF written.threw
             THEN Outcome(FALSE, entry, undefined, readFails, TRUE)
             ELSE Outcome(FALSE, written.value, undefined, readFails, FALSE)

\* a method whose own getPreferences call threw: nothing catches it
Propagates(entry, readFails) == Outcome(TRUE, entry, undefined, readFails, FALSE)

\* the outcome of a method that read once itself (read1) and then saved
AfterSave(saved, read1) ==
    [saved EXCEPT !.readFailed = saved.readFailed \/ read1]

\* addToFavorites without the includes test of line 375
addToFavorites_noTest(entry, eventId, read1, read2, writeFails) ==
    LET prefs == getPreferences(entry, read1) IN
    IF prefs.threw THEN Propagates(entry, read1)
    ELSE AfterSave(
           savePreferences(entry,
               [prefs.value EXCEPT !.favorites = Append(@, eventId)],
               read2, writeFails),
           read1)

\* addToFavorites, lines 373-379
addToFavorites(entry, eventId, read1, read2, writeFails) ==
    LET prefs == getPreferences(entry, read1) IN
    IF prefs.threw THEN Propagates(entry, read1)
    ELSE IF ~Includes(prefs.value.favorites, eventId)
         THEN AfterSave(
                savePreferences(entry,
                    [prefs.value EXCEPT !.favorites = Append(@, eventId)],
                    read2, writeFails),
                read1)
         ELSE Outcome(FALSE, entry, undefined, read1, FALSE)

\* removeFromFavorites that takes out the first id of the list, whatever it is
removeFromFavorites_first(entry, eventId, read1, read2, writeFails) ==
    LET prefs == getPreferences(entry, read1) IN
    IF prefs.threw THEN Propagates(entry, read1)
    ELSE AfterSave(
           savePreferences(entry,
               [prefs.value EXCEPT
                   !.favorites = IF @ = <<>> THEN @ ELSE Tail(@)],
               read2, writeFails),
           read1)

\* removeFromFavorites, lines 384-388
removeFromFavorites(entry, eventId, read1, read2, writeFails) ==
    LET prefs == getPreferences(entry, read1) IN
    IF prefs.threw THEN Propagates(entry, read1)
    ELSE AfterSave(
           savePreferences(entry,
               [prefs.value EXCEPT !.favorites = Without(@, eventId)],
               read2, writeFails),
           read1)

\* isFavorited, lines 393-396
isFavorited(entry, eventId, read1) ==
    LET prefs == getPreferences(entry, read1) IN
    IF prefs.threw THEN Propagates(entry, read1)
    ELSE Outcome(FALSE, entry, Includes(prefs.value.favorites, eventId), read1, FALSE)

\* addSearchToHistory without the filter of line 413
addSearchToHistory_noFilter(entry, query, read1, read2, writeFails) ==
    IF Trim(query) = <<>> THEN Outcome(FALSE, entry, undefined, FALSE, FALSE)
    ELSE LET prefs == getPreferences(entry, read1) IN
         IF prefs.threw THEN Propagates(entry, read1)
         ELSE LET history == <<query>> \o prefs.value.searchHistory IN
              AfterSave(
                savePreferences(entry,
                    [prefs.value EXCEPT !.searchHistory = Slice(history, HistoryLimit)],
                    read2, writeFails),
                read1)

\* addSearchToHistory that lets the history grow by one entry past the limit
addSearchToHistory_oneMore(entry, query, read1, read2, writeFails) ==
    IF Trim(query) = <<>> THEN Outcome(FALSE, entry, undefined, FALSE, FALSE)
    ELSE LET prefs == getPreferences(entry, read1) IN
         IF prefs.threw THEN Propagates(entry, read1)
         ELSE LET history == <<query>> \o Without(prefs.value.searchHistory, query) IN
              AfterSave(
                savePreferences(entry,
                    [prefs.value EXCEPT
                        !.searchHistory = Slice(history, HistoryLimit + 1)],
                    read2, writeFails),
                read1)

\* addSearchToHistory, lines 409-417
addSearchToHistory(entry, query, read1, read2, writeFails) ==
    IF Trim(query) = <<>> THEN Outcome(FALSE, entry, undefined, FALSE, FALSE)
    ELSE LET prefs == getPreferences(entry, read1) IN
         IF prefs.threw THEN Propagates(entry, read1)
         ELSE LET history == <<query>> \o Without(prefs.value.searchHistory, query) IN
              AfterSave(
                savePreferences(entry,
                    [prefs.value EXCEPT !.searchHistory = Slice(history, HistoryLimit)],
                    read2, writeFails),
                read1)

\* clearSearchHistory, lines 430-434
clearSearchHistory(entry, read1, read2, writeFails) ==
    LET prefs == getPreferences(entry, read1) IN
    IF prefs.threw THEN Propagates(entry, read1)
    ELSE AfterSave(
           savePreferences(entry,
               [prefs.value EXCEPT !.searchHistory = <<>>],
               read2, writeFails),
           read1)

-----------------------------------------------------------------------------
(* UserPreferencesApi: operations *)

\* no method called yet
PrefsAtLoad ==
    /\ lastOp = "none"
    /\ returned = undefined
    /\ thrown = FALSE
    /\ readFailed = FALSE
    /\ writeFailed = FALSE
    /\ lastArg = undefined
    /\ prevEntry = prefsEntry
    /\ recency = <<>>

\* the preferences store of a page that never uses it
PrefsUnused == prefsEntry = AbsentEntry /\ PrefsAtLoad

InitPrefs == prefsEntry \in InitialEntries /\ PrefsAtLoad

\* a call op(arg) that came to outcome o
Called(op, arg, o) ==
    /\ lastOp' = op
    /\ lastArg' = arg
    /\ prevEntry' = ItemAt(storageKey)
    /\ StoreAt(storageKey, o.entry)
    /\ returned' = o.value
    /\ thrown' = o.threw
    /\ readFailed' = o.readFailed
    /\ writeFailed' = o.writeFailed
    /\ UNCHANGED nonPrefsVars

GetPreferences(readFails) ==
    /\ LET prefs == getPreferences(ItemAt(storageKey), readFails) IN
       Called("getPreferences", undefined,
              IF prefs.threw THEN Propagates(ItemAt(storageKey), readFails)
              ELSE Outcome(FALSE, ItemAt(storageKey), prefs.value, readFails, FALSE))
    /\ UNCHANGED recency

SavePreferences(preferences, readFails, writeFails) ==
    /\ Called("savePreferences", preferences,
              savePreferences(ItemAt(storageKey), preferences, readFails, writeFails))
    /\ UNCHANGED recency

AddToFavorites(eventId, read1, read2, writeFails) ==
    /\ Called("addToFavorites", eventId,
              addToFavorites(ItemAt(storageKey), eventId, read1, read2, writeFails))
    /\ UNCHANGED recency

RemoveFromFavorites(eventId, read1, read2, writeFails) ==
    /\ Called("removeFromFavorites", eventId,
              removeFromFavorites(ItemAt(storageKey), eventId, read1, read2, writeFails))
    /\ UNCHANGED recency

IsFavorited(eventId, read1) ==
    /\ Called("isFavorited", eventId, isFavorited(ItemAt(storageKey), eventId, read1))
    /\ UNCHANGED recency

AddSearchToHistory(query, read1, read2, writeFails) ==
    /\ Called("addSearchToHistory", query,
              addSearchToHistory(ItemAt(storageKey), query, read1, read2, writeFails))
    /\ UNCHANGED recency

ClearSearchHistory(read1, read2, writeFails) ==
    /\ Called("clearSearchHistory", undefined,
              clearSearchHistory(ItemAt(storageKey), read1, read2, writeFails))
    /\ UNCHANGED recency

NextPrefs ==
    \/ \E rf \in BOOLEAN : GetPreferences(rf)
    \/ \E p \in Partials, rf, wf \in BOOLEAN : SavePreferences(p, rf, wf)
    \/ \E id \in EventIds, r1, r2, wf \in BOOLEAN : AddToFavorites(id, r1, r2, wf)
    \/ \E id \in EventIds, r1, r2, wf \in BOOLEAN : RemoveFromFavorites(id, r1, r2, wf)
    \/ \E id \in EventIds, r1 \in BOOLEAN : IsFavorited(id, r1)
    \/ \E q \in Queries, r1, r2, wf \in BOOLEAN : AddSearchToHistory(q, r1, r2, wf)
    \/ \E r1, r2, wf \in BOOLEAN : ClearSearchHistory(r1, r2, wf)

-----------------------------------------------------------------------------
(* VenuuApp: the favorites kept under 'venuu-favorites' (part_004) *)

\* JSON.stringify of a list of ids
ListEntry(list) == [kind |-> "list", obj |-> list]

\* the 'venuu-favorites' entry a page load may find: none yet, a text that is
\* no JSON, a list an earlier visit left
FavoritesAtLoad == {AbsentEntry, MalformedEntry, ListEntry(<<"e1">>)}

\* what a favorites method comes to: whether it threw to its caller, the
\* entry it leaves under its key, the value it returns as the console shows it
\* ("undefined": none)
AppOutcome(t, e, v) == [threw |-> t, entry |-> e, value |-> v]

\* a boolean as the console shows it
Shown(b) == IF b THEN "true" ELSE "false"

\* Array.prototype.splice(list.indexOf(x), 1) on a list that holds x
RemoveFirst(list, x) ==
    LET index == CHOOSE i \in 1..Len(list) :
                     list[i] = x /\ \A j \in 1..(i - 1) : list[j] # x
    IN  SubSeq(list, 1, index - 1) \o SubSeq(list, index + 1, Len(list))

\* getFavorites, part_004 lines 414-417: no try, so what getItem or
\* JSON.parse throws goes to the caller
getFavorites(entry, readFails) ==
    LET stored == getItem(entry, readFails) IN
    IF stored.threw THEN Threw
    ELSE IF ~TruthyText(stored.value) THEN Returned(<<>>)
    ELSE IF stored.value.kind = "malformed" THEN Threw
    ELSE Returned(stored.value.obj)

\* the value parsed from entry is no array: indexOf / includes are no functions
NoArray(entry) == TruthyText(entry) /\ entry.kind = "object"

\* toggleFavorite, part_004 lines 398-409 (renderEvents of line 408 draws the
\* cards and reads the list just written through isFavorite)
toggleFavorite(entry, eventId, readFails, writeFails) ==
    LET favorites == getFavorites(entry, readFails) IN
    IF favorites.threw \/ NoArray(entry) THEN AppOutcome(TRUE, entry, "undefined")
    ELSE LET updated == IF Includes(favorites.value, eventId)
                        THEN RemoveFirst(favorites.value, eventId)
                        ELSE Append(favorites.value, eventId)
             written == setItem(ListEntry(updated), writeFails)
         IN  IF written.threw THEN AppOutcome(TRUE, entry, "undefined")
             ELSE AppOutcome(FALSE, written.value, "undefined")

\* isFavorite, part_004 lines 410-413
isFavorite(entry, eventId, readFails) ==
    LET favorites == getFavorites(entry, readFails) IN
    IF favorites.threw \/ NoArray(entry) THEN AppOutcome(TRUE, entry, "undefined")
    ELSE AppOutcome(FALSE, entry, Shown(Includes(favorites.value, eventId)))

\* no favorites method called yet
AppAtLoad ==
    /\ appOp = "none"
    /\ appReturned = "undefined"
    /\ appThrown = FALSE

\* the favorites of a page that never uses them
AppUnused == favoritesEntry = AbsentEntry /\ AppAtLoad

\* a call of favorites method op that came to outcome o
AppCalled(op, o) ==
    /\ appOp' = op
    /\ appReturned' = o.value
    /\ appThrown' = o.threw
    /\ StoreAt(favoritesKey, o.entry)
    /\ UNCHANGED nonAppVars

ToggleFavorite(eventId, readFails, writeFails) ==
    AppCalled("toggleFavorite",
              toggleFavorite(ItemAt(favoritesKey), eventId, readFails, writeFails))

IsFavorite(eventId, readFails) ==
    AppCalled("isFavorite", isFavorite(ItemAt(favoritesKey), eventId, readFails))

\* a call of a VenuuApp favorites method; they have no try, so the storage
\* faults show
AppStep ==
    \/ \E id \in EventIds, rf, wf \in BOOLEAN : ToggleFavorite(id, rf, wf)
    \/ \E id \in EventIds, rf \in BOOLEAN : IsFavorite(id, rf)

\* a call of a UserPreferencesApi method on storage that works
PrefsStep ==
    \/ GetPreferences(FALSE)
    \/ SavePreferences([favorites |-> <<>>, language |-> "is"], FALSE, FALSE)
    \/ \E id \in EventIds : AddToFavorites(id, FALSE, FALSE, FALSE)
    \/ \E id \in EventIds : RemoveFromFavorites(id, FALSE, FALSE, FALSE)
    \/ \E id \in EventIds : IsFavorited(id, FALSE)
    \/ AddSearchToHistory(<<"a">>, FALSE, FALSE, FALSE)
    \/ ClearSearchHistory(FALSE, FALSE, FALSE)

\* the page with both favorites stores in use
NextFavorites == AppStep \/ PrefsStep

-----------------------------------------------------------------------------
(* Events and their filters: values *)
(* Texts are sequences of characters, so that toLowerCase and includes are  *)
(* computed; date strings are kept whole and read by DateOf.                *)

\* the longest event list tried
MaxEvents == 3

\* String.prototype.toLowerCase, over the characters the texts are made of
LowerChar(c) ==
    CASE c = "A" -> "a" [] c = "J" -> "j" [] c = "M" -> "m"
      [] c = "P" -> "p" [] c = "R" -> "r" [] OTHER -> c

toLowerCase(text) == [i \in 1..Len(text) |-> LowerChar(text[i])]

\* String.prototype.includes: part occurs in text as a substring
Contains(text, part) ==
    \E i \in 0..(Len(text) - Len(part)) : SubSeq(text, i + 1, i + Len(part)) = part

\* Array.prototype.join(sep)
RECURSIVE Join(_, _)
Join(list, sep) ==
    IF list = <<>> THEN <<>>
    ELSE IF Len(list) = 1 THEN list[1]
    ELSE list[1] \o sep \o Join(Tail(list), sep)

\* a || b on texts: an absent field and "" are both falsy
Or(a, b) == IF a # <<>> THEN a ELSE b

\* a number, or NaN
Num(n) == [nan |-> FALSE, n |-> n]
NaN == [nan |-> TRUE, n |-> 0]

\* a - b, a < b, a > b, a >= b on numbers: NaN is contagious and compares false
Minus(a, b) == IF a.nan \/ b.nan THEN NaN ELSE Num(a.n - b.n)
LessThan(a, b) == ~a.nan /\ ~b.nan /\ a.n < b.n
GreaterThan(a, b) == ~a.nan /\ ~b.nan /\ a.n > b.n
GreaterOrEqual(a, b) == ~a.nan /\ ~b.nan /\ a.n >= b.n

\* new Date(s).getTime(), in days of 2024: NaN for "" and for a text that is
\* no date
DateOf(s) ==
    CASE s = "2024-01-01" -> Num(1)
      [] s = "2024-03-01" -> Num(61)
      [] s = "2024-06-01" -> Num(153)
      [] OTHER -> NaN

\* event.category: a list of texts, a single text, or absent (text "")
CategoryList(list) == [isArray |-> TRUE, list |-> list, text |-> <<>>]
CategoryText(text) == [isArray |-> FALSE, list |-> <<>>, text |-> text]

\* an event with its id alone: every optional field of VenuuEvent absent
BareEvent(id) ==
    [id |-> id, title |-> <<>>, title_en |-> <<>>, langTitle |-> <<>>,
     description |-> <<>>, location |-> <<>>, formatted_address |-> <<>>,
     city |-> <<>>, langPlace |-> <<>>, category |-> CategoryText(<<>>),
     event_category |-> <<>>, start |-> "", date |-> ""]

\* the texts used
Mu == <<"M", "u">>
Ar == <<"A", "r">>
Re == <<"R", "e">>
Ak == <<"A", "k">>

\* the events the lists are drawn from, one for each way a field is given:
\* title, categories as a list, location, start
EventA ==
    [BareEvent("a") EXCEPT !.title = <<"J", "a">>, !.category = CategoryList(<<Mu, Ar>>),
                           !.location = Re, !.start = "2024-06-01"]

\* title_en, category as one text beside another event_category, city, date
\* without start, a description
EventB ==
    [BareEvent("b") EXCEPT !.title_en = <<"M", "a">>, !.category = CategoryText(Ar),
                           !.event_category = Mu, !.city = Ak,
                           !.date = "2024-01-01", !.description = <<"m", "u">>]

\* language.en.title, event_category alone, formatted_address, no date at all
EventC ==
    [BareEvent("c") EXCEPT !.langTitle = <<"R", "u">>, !.event_category = Mu,
                           !.formatted_address = Re]

\* an empty category list beside an event_category, language.en.place, a
\* start that is no date beside a date
EventD ==
    [BareEvent("d") EXCEPT !.title = <<"P", "a">>, !.category = CategoryList(<<>>),
                           !.event_category = Ar, !.langPlace = Ak,
                           !.start = "soon", !.date = "2024-03-01"]

EventPool == {EventA, EventB, EventC, EventD}

\* the elements of a list
Elems(list) == {list[i] : i \in 1..Len(list)}

\* the lists of n distinct members of set
ListsOf(set, n) ==
    {l \in [1..n -> set] : \A i, j \in 1..n : l[i] = l[j] => i = j}

\* the event lists a page may load: distinct events, in any order
EventLists == UNION {ListsOf(EventPool, n) : n \in 0..MaxEvents}

\* the orders a list can be put in
Orderings(list) == ListsOf(Elems(list), Len(list))

-----------------------------------------------------------------------------
(* Events and their filters: the resolved fields *)

\* title, api.ts lines 164-168 and part_004 lines 236-239, 281-288
Title(event) == Or(event.title, Or(event.title_en, Or(event.langTitle, <<>>)))

\* location, api.ts lines 171-176 and part_004 lines 240-244, 291-300; the
\* location filter of part_004 lines 269-272 leaves the final "" out, which
\* no non-empty filter value tells apart
Location(event) ==
    Or(event.location,
       Or(event.formatted_address, Or(event.city, Or(event.langPlace, <<>>))))

\* event.start || event.date || ""
ResolvedDate(event) ==
    IF event.start # "" THEN event.start
    ELSE IF event.date # "" THEN event.date
    ELSE ""

\* new Date(event.start || event.date || "").getTime()
Time(event) == DateOf(ResolvedDate(event))

-----------------------------------------------------------------------------
(* EventsApi.searchEvents *)

\* SearchParams, lines 96-102: an absent parameter and "" are both falsy
NoParams ==
    [query |-> <<>>, category |-> <<>>, location |-> <<>>,
     startDate |-> "", endDate |-> ""]

\* the parameters tried
ParamsTried ==
    {NoParams,
     [NoParams EXCEPT !.query = Mu],
     [NoParams EXCEPT !.query = <<"a">>, !.category = Ar],
     [NoParams EXCEPT !.category = Mu],
     [NoParams EXCEPT !.location = Re],
     [NoParams EXCEPT !.startDate = "2024-06-01"],
     [NoParams EXCEPT !.endDate = "2024-01-01"],
     [NoParams EXCEPT !.startDate = "2024-01-01", !.endDate = "2024-03-01"],
     [NoParams EXCEPT !.query = <<"a">>, !.startDate = "2024-03-01"]}

\* categories, lines 179-181
Categories(event) ==
    IF event.category.isArray THEN event.category.list
    ELSE <<Or(event.category.text, Or(event.event_category, <<>>))>>

\* matchesText, lines 185-191, for the lower-cased query
MatchesText(event, query) ==
    \/ Contains(toLowerCase(Title(event)), query)
    \/ event.description # <<>> /\ Contains(toLowerCase(event.description), query)
    \/ Contains(toLowerCase(Location(event)), query)
    \/ \E i \in 1..Len(Categories(event)) :
           Contains(toLowerCase(Categories(event)[i]), query)

\* the date range of lines 209-225 lets the event through
InDateRange(event, startDate, endDate) ==
    (startDate # "" \/ endDate # "") =>
        /\ ~(startDate # "" /\ LessThan(Time(event), DateOf(startDate)))
        /\ ~(endDate # "" /\ GreaterThan(Time(event), DateOf(endDate)))

\* the callback of events.filter, lines 162-228
Selects(searchParams, event) ==
    /\ searchParams.query # <<>> =>
           MatchesText(event, toLowerCase(searchParams.query))
    /\ searchParams.category # <<>> =>
           Includes(Categories(event), searchParams.category)
    /\ ~(searchParams.location # <<>> /\ Location(event) # searchParams.location)
    /\ InDateRange(event, searchParams.startDate, searchParams.endDate)

\* searchEvents, lines 159-229, on the list getEvents() resolved with
searchEvents(list, searchParams) ==
    SelectSeq(list, LAMBDA event : Selects(searchParams, event))

\* getEventsByCategory, lines 297-305, on the list getEvents() resolved with
getEventsByCategory(list, category) ==
    SelectSeq(list, LAMBDA event :
        IF event.category.isArray THEN Includes(event.category.list, category)
        ELSE event.category.text = category \/ event.event_category = category)

-----------------------------------------------------------------------------
(* VenuuApp.applyFilters (part_004) *)

\* currentFilters of the constructor, lines 8-13
NoFilters ==
    [category |-> <<>>, location |-> <<>>, sort |-> "date", dateOrder |-> "asc"]

\* categories, lines 245-247: the list joined with spaces, or the one text
CategoriesText(event) ==
    IF event.category.isArray THEN Join(event.category.list, <<" ">>)
    ELSE Or(event.category.text, <<>>)

\* the search filter, lines 234-253
MatchesQuery(event, query) ==
    \/ Contains(toLowerCase(Title(event)), query)
    \/ Contains(toLowerCase(Location(event)), query)
    \/ Contains(toLowerCase(CategoriesText(event)), query)
    \/ Contains(toLowerCase(Or(event.description, <<>>)), query)

\* the category filter, lines 256-262
InCategory(event, category) ==
    IF event.category.isArray THEN Includes(event.category.list, category)
    ELSE event.category.text = category

\* the filters of applyFilters as an else-if chain: with a search text the
\* category and location controls are not looked at
Filtered_searchAlone(list, query, filters) ==
    IF query # <<>>
    THEN SelectSeq(list, LAMBDA event : MatchesQuery(event, query))
    ELSE IF filters.category # <<>>
    THEN SelectSeq(list, LAMBDA event : InCategory(event, filters.category))
    ELSE IF filters.location # <<>>
    THEN SelectSeq(list, LAMBDA event : Location(event) = filters.location)
    ELSE list

\* the filters of lines 232-275, one after the other
Filtered(list, query, filters) ==
    LET bySearch ==
            IF query # <<>>
            THEN SelectSeq(list, LAMBDA event : MatchesQuery(event, query))
            ELSE list
        byCategory ==
            IF filters.category # <<>>
            THEN SelectSeq(bySearch, LAMBDA event : InCategory(event, filters.category))
            ELSE bySearch
    IN  IF filters.location # <<>>
        THEN SelectSeq(byCategory, LAMBDA event : Location(event) = filters.location)
        ELSE byCategory

\* the place of a character in the collation order of the texts used
CharRank(c) ==
    Pos(<<" ", "a", "A", "e", "j", "J", "k", "m", "M", "p", "P", "r", "R", "u">>, c)

\* String.prototype.localeCompare, as -1, 0 or 1
RECURSIVE localeCompare(_, _)
localeCompare(a, b) ==
    IF a = <<>> /\ b = <<>> THEN 0
    ELSE IF a = <<>> THEN -1
    ELSE IF b = <<>> THEN 1
    ELSE IF CharRank(Head(a)) < CharRank(Head(b)) THEN -1
    ELSE IF CharRank(Head(a)) > CharRank(Head(b)) THEN 1
    ELSE localeCompare(Tail(a), Tail(b))

\* the comparator of lines 277-309
Comparator(a, b, filters) ==
    CASE filters.sort = "name" -> Num(localeCompare(Title(a), Title(b)))
      [] filters.sort = "location" -> Num(localeCompare(Location(a), Location(b)))
      [] OTHER -> IF filters.dateOrder = "asc" THEN Minus(Time(a), Time(b))
                  ELSE Minus(Time(b), Time(a))

\* what Array.prototype.sort makes of the comparator's value: NaN counts as 0
Order(a, b, filters) ==
    LET v == Comparator(a, b, filters) IN IF v.nan THEN 0 ELSE v.n

\* the comparator is consistent on set (ECMAScript, Array.prototype.sort):
\* being equal is symmetric and transitive, being less and being greater are
\* transitive
Consistent(set, filters) ==
    \A a, b \in set :
        LET ab == Order(a, b, filters) IN
        /\ ab = 0 => /\ Order(b, a, filters) = 0
                      /\ \A c \in set : Order(b, c, filters) = 0
                                            => Order(a, c, filters) = 0
        /\ ab < 0 => \A c \in set : Order(b, c, filters) < 0
                                        => Order(a, c, filters) < 0
        /\ ab > 0 => \A c \in set : Order(b, c, filters) > 0
                                        => Order(a, c, filters) > 0

\* event put into the sorted list behind the elements that are not greater
RECURSIVE Inserted(_, _, _)
Inserted(event, sorted, filters) ==
    IF sorted = <<>> THEN <<event>>
    ELSE IF Order(sorted[Len(sorted)], event, filters) > 0
         THEN Inserted(event, SubSeq(sorted, 1, Len(sorted) - 1), filters)
                  \o <<sorted[Len(sorted)]>>
         ELSE Append(sorted, event)

\* list in the order of a consistent comparator, equal elements in the order
\* they had (the sort is stable)
RECURSIVE StableSort(_, _)
StableSort(list, filters) ==
    IF list = <<>> THEN <<>>
    ELSE Inserted(list[Len(list)], StableSort(SubSeq(list, 1, Len(list) - 1), filters),
                  filters)

\* the lists Array.prototype.sort may leave: the sorted one when the
\* comparator is consistent, otherwise an ordering the implementation chooses
Sorted(list, filters) ==
    IF Consistent(Elems(list), filters) THEN {StableSort(list, filters)}
    ELSE Orderings(list)

\* applyFilters, lines 231-313: the lists filteredEvents may be left as
applyFilters(list, query, filters) ==
    Sorted(Filtered(list, query, filters), filters)

-----------------------------------------------------------------------------
(* EventsApi.getFeaturedEvents *)

\* the filter of lines 281-284: the event is dated today or later
Upcoming(event, today) == GreaterOrEqual(Time(event), Num(today))

\* getFeaturedEvents without its sort: the first limit upcoming events
getFeaturedEvents_unsorted(list, limit, today) ==
    {Slice(SelectSeq(list, LAMBDA event : Upcoming(event, today)), limit)}

\* getFeaturedEvents, lines 276-292, called at time today on the list
\* getEvents() resolved with: the lists it may resolve with. The comparator
\* of lines 285-289 is the one of the ascending date sort
getFeaturedEvents(list, limit, today) ==
    {Slice(upcomingEvents, limit) :
        upcomingEvents \in
            Sorted(SelectSeq(list, LAMBDA event : Upcoming(event, today)), NoFilters)}

-----------------------------------------------------------------------------
(* VenuuApp and EventsApi.searchEvents: operations *)

\* what is typed into #search-input (the last text runs from the end of one
\* category of event a into the next), and the options of the selects
InputValues == {<<>>, Mu, <<"a">>, <<"u", " ", "a">>}
CategoryChoices == {<<>>, Mu, Ar}
LocationChoices == {<<>>, Re}
SortChoices == {"date", "name", "location"}

\* the counts asked of getFeaturedEvents (6 is its default), and the days it
\* is called on: before, on, between and after the dates of the events
Limits == {0, 1, 2, 6}
Todays == {0, 1, 61, 153, 154}

\* no searchEvents call made yet
NotSearched == [called |-> FALSE, params |-> NoParams, result |-> <<>>]

\* no getEventsByCategory or getFeaturedEvents call made yet
NotDerived == [op |-> "none", category |-> <<>>, limit |-> 0, today |-> 0,
               result |-> <<>>]

\* VenuuApp after init() on a page whose loadEvents got list (constructor,
\* lines 5-15, and loadEvents, lines 34-47)
Loaded(list) ==
    /\ loadedEvents = list
    /\ filteredEvents = list
    /\ searchQuery = <<>>
    /\ currentFilters = NoFilters
    /\ search = NotSearched
    /\ derived = NotDerived
    /\ cleared = FALSE

\* a page without events
FiltersUnused == Loaded(<<>>)

\* this.applyFilters() at the end of a handler, on the state it set
Applied ==
    /\ filteredEvents' \in applyFilters(loadedEvents, searchQuery', currentFilters')
    /\ UNCHANGED <<loadedEvents, search, derived>>
    /\ UNCHANGED nonFilterVars

\* the input handler of #search-input, lines 151-154
SearchInput(value) ==
    /\ searchQuery' = toLowerCase(value)
    /\ UNCHANGED currentFilters
    /\ cleared' = FALSE
    /\ Applied

\* the click handler of #searchBtn, lines 157-159
SearchClick ==
    /\ UNCHANGED <<searchQuery, currentFilters>>
    /\ cleared' = FALSE
    /\ Applied

\* a change handler of #category-filter that sets the filter and does not
\* apply it
CategoryChange_noApply(value) ==
    /\ currentFilters' = [currentFilters EXCEPT !.category = value]
    /\ cleared' = FALSE
    /\ UNCHANGED <<loadedEvents, filteredEvents, searchQuery, search, derived>>
    /\ UNCHANGED nonFilterVars

\* the change handler of #category-filter, lines 168-171
CategoryChange(value) ==
    /\ currentFilters' = [currentFilters EXCEPT !.category = value]
    /\ UNCHANGED searchQuery
    /\ cleared' = FALSE
    /\ Applied

\* the change handler of #location-filter, lines 174-177
LocationChange(value) ==
    /\ currentFilters' = [currentFilters EXCEPT !.location = value]
    /\ UNCHANGED searchQuery
    /\ cleared' = FALSE
    /\ Applied

\* the change handler of #sort-filter, lines 180-183
SortChange(value) ==
    /\ currentFilters' = [currentFilters EXCEPT !.sort = value]
    /\ UNCHANGED searchQuery
    /\ cleared' = FALSE
    /\ Applied

\* the click handler of #date-order-toggle, lines 186-197
DateOrderToggle ==
    /\ currentFilters' =
           [currentFilters EXCEPT !.dateOrder = IF @ = "asc" THEN "desc" ELSE "asc"]
    /\ UNCHANGED searchQuery
    /\ cleared' = FALSE
    /\ Applied

\* clearAllFilters, lines 314-339
ClearAllFilters ==
    /\ searchQuery' = <<>>
    /\ currentFilters' = NoFilters
    /\ cleared' = TRUE
    /\ Applied

\* a call of EventsApi.searchEvents(searchParams) whose getEvents() resolved
\* with the event list
SearchEvents(searchParams) ==
    /\ search' = [called |-> TRUE, params |-> searchParams,
                  result |-> searchEvents(loadedEvents, searchParams)]
    /\ UNCHANGED <<loadedEvents, filteredEvents, searchQuery, currentFilters,
                   derived, cleared>>
    /\ UNCHANGED nonFilterVars

\* a call of a derived query of EventsApi whose getEvents() resolved with the
\* event list
Derived(d) ==
    /\ derived' = d
    /\ UNCHANGED <<loadedEvents, filteredEvents, searchQuery, currentFilters,
                   search, cleared>>
    /\ UNCHANGED nonFilterVars

\* EventsApi.getEventsByCategory(category)
GetEventsByCategory(category) ==
    Derived([NotDerived EXCEPT !.op = "getEventsByCategory", !.category = category,
                               !.result = getEventsByCategory(loadedEvents, category)])

\* EventsApi.getFeaturedEvents(limit) called at time today
GetFeaturedEvents(limit, today) ==
    \E list \in getFeaturedEvents(loadedEvents, limit, today) :
        Derived([NotDerived EXCEPT !.op = "getFeaturedEvents", !.limit = limit,
                                   !.today = today, !.result = list])

NextFilters ==
    \/ \E value \in InputValues : SearchInput(value)
    \/ SearchClick
    \/ \E value \in CategoryChoices : CategoryChange(value)
    \/ \E value \in LocationChoices : LocationChange(value)
    \/ \E value \in SortChoices : SortChange(value)
    \/ DateOrderToggle
    \/ ClearAllFilters

NextSearch == \E searchParams \in ParamsTried : SearchEvents(searchParams)

NextDerived ==
    \/ \E category \in CategoryChoices \ {<<>>} : GetEventsByCategory(category)
    \/ \E limit \in Limits, today \in Todays : GetFeaturedEvents(limit, today)

-----------------------------------------------------------------------------
(* The search history at its cap *)

\* the number of distinct queries searched for: one more than the history holds
NumQueries == 11

\* the characters the one-character queries are made of
QueryChars == <<"a", "b", "c", "d", "e", "f", "g", "h", "i", "j", "k", "l", "m">>

\* getSearchHistory(), lines 422-425, on a store holding entry
SearchHistory(entry) == View(entry).searchHistory

\* the first query, in the order of QueryChars, that history h does not hold
FreshQuery(h) ==
    LET absent == {i \in 1..NumQueries : ~Includes(h, <<QueryChars[i]>>)}
    IN  {<<QueryChars[i]>> : i \in {j \in absent : \A k \in absent : j <= k}}

\* history h is the first Len(h) queries searched for once each, in order
InOrder(h) == \A i \in 1..Len(h) : h[i] = <<QueryChars[Len(h) + 1 - i]>>

\* the entries of h searched for again: the newest at any time, any other one
\* once, on a history built in order
Repeated(h) ==
    {h[i] : i \in (IF InOrder(h) THEN 1..Len(h) ELSE {1}) \cap 1..Len(h)}

\* the queries typed next on history h: blank ones, a new one, a repeated one
HistoryInputs(h) == {<<>>, <<" ">>, <<" ", " ">>} \cup FreshQuery(h) \cup Repeated(h)

\* addSearchToHistory(query) followed: storage works (no getItem or setItem
\* throws) and the call is recorded
HistoryAdd(query) ==
    /\ Called("addSearchToHistory", query,
              addSearchToHistory(ItemAt(storageKey), query, FALSE, FALSE, FALSE))
    /\ recency' = IF Trim(query) = <<>> THEN recency
                  ELSE <<query>> \o Without(recency, query)

\* clearSearchHistory() followed
HistoryClear ==
    /\ Called("clearSearchHistory", undefined,
              clearSearchHistory(ItemAt(storageKey), FALSE, FALSE, FALSE))
    /\ recency' = <<>>

NextHistory ==
    \/ \E q \in HistoryInputs(SearchHistory(prefsEntry)) : HistoryAdd(q)
    \/ HistoryClear

-----------------------------------------------------------------------------
(* The login page (login.ts) and the nav link (nav.ts) *)
(* Texts are sequences whose members are a space or a run of other          *)
(* characters, so that trim() is computed.                                   *)

\* the pages open at once
NumTabs == 2

Tabs == 1..NumTabs

\* const USERS, login.ts lines 8-11
USERS ==
    <<[email |-> <<"admin@venuu.is">>, password |-> <<"12345">>],
      [email |-> <<"user@venuu.is">>, password |-> <<"password">>]>>

\* what is typed into #email and #password: nothing, blanks, the entries of
\* USERS bare and within blanks, and texts of no entry
Emails ==
    {<<>>, <<" ">>, <<"admin@venuu.is">>, <<" ", "admin@venuu.is", " ">>,
     <<"user@venuu.is">>, <<"guest@venuu.is">>}
Passwords == {<<>>, <<" ", " ">>, <<"12345">>, <<"password", " ">>, <<"secret">>}

\* no 'userEmail' entry: getItem gives null
NoEmail == <<>>

\* a lookup that takes the first user with the email, whatever the password
FindUser_emailOnly(email, password) ==
    LET found == {i \in 1..Len(USERS) : USERS[i].email = email}
    IN  IF found = {} THEN 0 ELSE CHOOSE i \in found : \A j \in found : i <= j

\* USERS.find, login.ts lines 33-35: the place of the first user with this
\* email and this password, 0 when there is none (undefined)
FindUser(email, password) ==
    LET found == {i \in 1..Len(USERS) :
                     USERS[i].email = email /\ USERS[i].password = password}
    IN  IF found = {} THEN 0 ELSE CHOOSE i \in found : \A j \in found : i <= j

\* updateNavLink, nav.ts lines 9-30, run when a page loads: the text of
\* #nav-login, which also decides what its onclick does
updateNavLink(entry) == IF entry # NoEmail THEN "Logout" ELSE "Login"

\* a page as loaded while the 'userEmail' entry was entry
PageLoaded(page, entry) ==
    [page |-> page, navText |-> updateNavLink(entry), atLoad |-> entry]

\* no submit or click yet
NoEvent ==
    [kind |-> "none", tab |-> 0, email |-> <<>>, password |-> <<>>,
     alert |-> "", stored |-> FALSE, removed |-> FALSE]

\* a site nobody logged in to, its pages open on index.html
LoginUnused ==
    /\ userEmail = NoEmail
    /\ tabs = [t \in Tabs |-> PageLoaded("index", NoEmail)]
    /\ lastEvent = NoEvent

\* the pages as opened, logged in (by an earlier visit) or not
InitLogin ==
    /\ userEmail \in {NoEmail, USERS[1].email}
    /\ \E pages \in [Tabs -> {"index", "login"}] :
           tabs = [t \in Tabs |-> PageLoaded(pages[t], userEmail)]
    /\ lastEvent = NoEvent

\* the submit handler of #login-form, login.ts lines 20-43, on the login page
\* of tab t. setItem may throw, which ends the handler before the redirect;
\* the redirect of line 39 loads index.html in the tab.
Submit(t, emailValue, passwordValue, writeFails) ==
    /\ tabs[t].page = "login"
    /\ LET email == Trim(emailValue)
           password == Trim(passwordValue)
           foundUser == FindUser(email, password)
           event == [NoEvent EXCEPT !.kind = "submit", !.tab = t,
                                    !.email = emailValue, !.password = passwordValue]
       IN  IF email = <<>> \/ password = <<>>
           THEN /\ lastEvent' = [event EXCEPT !.alert = "Please enter email and password"]
                /\ UNCHANGED <<userEmail, tabs>>
           ELSE IF foundUser = 0
           THEN /\ lastEvent' = [event EXCEPT !.alert = "Invalid email or password"]
                /\ UNCHANGED <<userEmail, tabs>>
           ELSE IF writeFails
           THEN /\ lastEvent' = event
                /\ UNCHANGED <<userEmail, tabs>>
           ELSE /\ userEmail' = USERS[foundUser].email
                /\ lastEvent' = [event EXCEPT !.stored = TRUE]
                /\ tabs' = [tabs EXCEPT ![t] = PageLoaded("index", userEmail')]
    /\ UNCHANGED nonLoginVars

\* a click on #nav-login in tab t, nav.ts lines 17-21 and 25-28: the onclick
\* set when the page loaded; both redirect to login.html
NavClick(t) ==
    /\ IF tabs[t].navText = "Logout"
       THEN /\ userEmail' = NoEmail
            /\ lastEvent' = [NoEvent EXCEPT !.kind = "navClick", !.tab = t,
                                            !.removed = TRUE]
       ELSE /\ UNCHANGED userEmail
            /\ lastEvent' = [NoEvent EXCEPT !.kind = "navClick", !.tab = t]
    /\ tabs' = [tabs EXCEPT ![t] = PageLoaded("login", userEmail')]
    /\ UNCHANGED nonLoginVars

\* the user opens or reloads a page in tab t
LoadPage(t, page) ==
    /\ tabs' = [tabs EXCEPT ![t] = PageLoaded(page, userEmail)]
    /\ lastEvent' = [NoEvent EXCEPT !.kind = "load", !.tab = t]
    /\ UNCHANGED userEmail
    /\ UNCHANGED nonLoginVars

NextLogin ==
    \/ \E t \in Tabs, emailValue \in Emails, passwordValue \in Passwords,
          writeFails \in BOOLEAN :
           Submit(t, emailValue, passwordValue, writeFails)
    \/ \E t \in Tabs : NavClick(t)
    \/ \E t \in Tabs, page \in {"index", "login"} : LoadPage(t, page)

-----------------------------------------------------------------------------
(* Utils.debounce and Utils.throttle (part_000) *)
(* A timer set with setTimeout(f, ms) runs f once, ms after it was set or    *)
(* later: the callback waits for its turn on the event loop.                 *)

\* the wait of the debounced function and the limit of the throttled one, ms
debounceWait == 2
throttleLimit == 2

\* no timer set (timeout = null)
NoTimer == [set |-> FALSE, due |-> 0, args |-> 0]

\* a timer set at time t with delay ms, whose callback holds args
Timer(t, ms, args) == [set |-> TRUE, due |-> t + ms, args |-> args]

\* Utils.debounce(func, wait, immediate) as returned, lines 12 and 14
Debounce(immediate) ==
    [immediate |-> immediate, timeout |-> NoTimer, calls |-> <<>>, invoked |-> <<>>]

\* Utils.throttle(func, limit) as returned, lines 39 and 41
Throttle == [inThrottle |-> FALSE, timer |-> NoTimer, calls |-> <<>>, invoked |-> <<>>]

\* no debounced or throttled function in use
TimersUnused ==
    /\ tnow = 0
    /\ debounced = Debounce(FALSE)
    /\ throttled = Throttle

\* time passes
TimePasses ==
    /\ tnow < MaxTime
    /\ tnow' = tnow + 1
    /\ UNCHANGED <<debounced, throttled>>
    /\ UNCHANGED nonTimerVars

\* an invocation of func: its arguments, the time, and whether a call or a
\* timer made it
Invocation(args, by) == [args |-> args, at |-> tnow, by |-> by]

\* a debounced function whose pending callback keeps the arguments it has
DebouncedCall_firstArgs ==
    /\ Len(debounced.calls) < MaxTimedCalls
    /\ tnow + debounceWait <= MaxTime
    /\ LET args == Len(debounced.calls) + 1
           callNow == debounced.immediate /\ ~debounced.timeout.set
       IN  debounced' =
               [debounced EXCEPT
                   !.calls = Append(@, [args |-> args, at |-> tnow,
                                        pending |-> debounced.timeout.set]),
                   !.timeout = IF @.set THEN [@ EXCEPT !.due = tnow + debounceWait]
                               ELSE Timer(tnow, debounceWait, args),
                   !.invoked = IF callNow THEN Append(@, Invocation(args, "call"))
                               ELSE @]
    /\ UNCHANGED <<tnow, throttled>>
    /\ UNCHANGED nonTimerVars

\* executedFunction(...args), lines 14-29. The nth call carries the argument
\* n; the call is noted with its time and with whether it found a timeout
\* set. clearTimeout and setTimeout (lines 22-26) replace the timeout by one
\* that holds this call's arguments.
DebouncedCall ==
    /\ Len(debounced.calls) < MaxTimedCalls
    /\ tnow + debounceWait <= MaxTime
    /\ LET args == Len(debounced.calls) + 1
           callNow == debounced.immediate /\ ~debounced.timeout.set
       IN  debounced' =
               [debounced EXCEPT
                   !.calls = Append(@, [args |-> args, at |-> tnow,
                                        pending |-> debounced.timeout.set]),
                   !.timeout = Timer(tnow, debounceWait, args),
                   !.invoked = IF callNow THEN Append(@, Invocation(args, "call"))
                               ELSE @]
    /\ UNCHANGED <<tnow, throttled>>
    /\ UNCHANGED nonTimerVars

\* later(), lines 15-18, run by the timer when its time has come
DebounceLater ==
    /\ debounced.timeout.set
    /\ tnow >= debounced.timeout.due
    /\ debounced' =
           [debounced EXCEPT
               !.timeout = NoTimer,
               !.invoked = IF ~debounced.immediate
                           THEN Append(@, Invocation(debounced.timeout.args, "timer"))
                           ELSE @]
    /\ UNCHANGED <<tnow, throttled>>
    /\ UNCHANGED nonTimerVars

NextDebounce == TimePasses \/ DebouncedCall \/ DebounceLater

\* an invocation of func by a call of the throttled function: its arguments,
\* the time, and whether func threw
Invoked(args, throws) == [args |-> args, at |-> tnow, by |-> "call", threw |-> throws]

\* a throttled function that invokes func and never closes
ThrottledCall_noFlag(throws) ==
    /\ Len(throttled.calls) < MaxTimedCalls
    /\ tnow + throttleLimit <= MaxTime
    /\ LET args == Len(throttled.calls) + 1
           call == [args |-> args, at |-> tnow, pending |-> throttled.inThrottle]
       IN  throttled' =
               [throttled EXCEPT
                   !.calls = Append(@, call),
                   !.invoked = Append(@, Invoked(args, throws)),
                   !.timer = IF throws THEN @ ELSE Timer(tnow, throttleLimit, 0)]
    /\ UNCHANGED <<tnow, debounced>>
    /\ UNCHANGED nonTimerVars

\* the function throttle returns, lines 41-47. The nth call carries the
\* argument n; the call is noted with its time and with whether it found
\* inThrottle set. When func throws, line 43 ends the call: inThrottle is
\* not set and no timer is started.
ThrottledCall(throws) ==
    /\ Len(throttled.calls) < MaxTimedCalls
    /\ tnow + throttleLimit <= MaxTime
    /\ LET args == Len(throttled.calls) + 1
           call == [args |-> args, at |-> tnow, pending |-> throttled.inThrottle]
       IN  IF ~throttled.inThrottle
           THEN throttled' =
                    [throttled EXCEPT
                        !.calls = Append(@, call),
                        !.invoked = Append(@, Invoked(args, throws)),
                        !.inThrottle = ~throws,
                        !.timer = IF throws THEN @ ELSE Timer(tnow, throttleLimit, 0)]
           ELSE /\ ~throws
                /\ throttled' = [throttled EXCEPT !.calls = Append(@, call)]
    /\ UNCHANGED <<tnow, debounced>>
    /\ UNCHANGED nonTimerVars

\* the callback of line 45, run by the timer when its time has come
ThrottleReopens ==
    /\ throttled.timer.set
    /\ tnow >= throttled.timer.due
    /\ throttled' =
           [throttled EXCEPT !.inThrottle = FALSE, !.timer = NoTimer]
    /\ UNCHANGED <<tnow, debounced>>
    /\ UNCHANGED nonTimerVars

NextThrottle ==
    \/ TimePasses
    \/ \E throws \in BOOLEAN : ThrottledCall(throws)
    \/ ThrottleReopens

-----------------------------------------------------------------------------
(* Specifications *)

\* an EventsApi in use, the preferences store unused
InitSpecEvents ==
    InitEvents /\ PrefsUnused /\ AppUnused /\ FiltersUnused /\ TimersUnused
        /\ LoginUnused

SpecEvents == InitSpecEvents /\ [][NextEvents]_vars

\* every fetch that was started resolves or rejects in the end
FetchesSettle ==
    \A c \in Calls :
        /\ WF_vars(\E resp \in Responses : PrimarySettles(c, resp))
        /\ WF_vars(\E resp \in Responses : FallbackSettles(c, resp))

SpecEventsFair == SpecEvents /\ FetchesSettle

\* a preferences store in use, the EventsApi as constructed
InitSpecPrefs ==
    InitEvents /\ InitPrefs /\ AppUnused /\ FiltersUnused /\ TimersUnused
        /\ LoginUnused

SpecPrefs == InitSpecPrefs /\ [][NextPrefs]_vars

\* a store without history, the other keys stored or not
InitSpecHistory ==
    /\ InitEvents
    /\ prefsEntry \in {AbsentEntry, ObjectEntry([theme |-> "dark"])}
    /\ PrefsAtLoad
    /\ AppUnused
    /\ FiltersUnused
    /\ TimersUnused
    /\ LoginUnused

SpecHistory == InitSpecHistory /\ [][NextHistory]_vars

\* both favorites stores in use
InitSpecFavorites ==
    /\ InitEvents
    /\ prefsEntry = AbsentEntry
    /\ PrefsAtLoad
    /\ favoritesEntry \in FavoritesAtLoad
    /\ AppAtLoad
    /\ FiltersUnused
    /\ TimersUnused
    /\ LoginUnused

SpecFavorites == InitSpecFavorites /\ [][NextFavorites]_vars

\* a page that loaded an event list
InitSpecFilters ==
    /\ InitEvents
    /\ PrefsUnused
    /\ AppUnused
    /\ \E list \in EventLists : Loaded(list)
    /\ TimersUnused
    /\ LoginUnused

\* the search field and the filter controls of VenuuApp in use
SpecFilters == InitSpecFilters /\ [][NextFilters]_vars

\* EventsApi.searchEvents called on the event list
SpecSearch == InitSpecFilters /\ [][NextSearch]_vars

\* the derived queries of EventsApi called on the event list
SpecDerived == InitSpecFilters /\ [][NextDerived]_vars

\* a debounced function, trailing or immediate, on a page that uses nothing
\* else; its timer runs in the end, and time passes
InitSpecDebounce ==
    /\ InitEvents
    /\ PrefsUnused
    /\ AppUnused
    /\ FiltersUnused
    /\ LoginUnused
    /\ tnow = 0
    /\ \E immediate \in BOOLEAN : debounced = Debounce(immediate)
    /\ throttled = Throttle

SpecDebounce ==
    /\ InitSpecDebounce
    /\ [][NextDebounce]_vars
    /\ WF_vars(DebounceLater)
    /\ WF_vars(TimePasses)

\* a throttled function on a page that uses nothing else; its timer runs in
\* the end, and time passes
InitSpecThrottle ==
    /\ InitEvents
    /\ PrefsUnused
    /\ AppUnused
    /\ FiltersUnused
    /\ LoginUnused
    /\ TimersUnused

SpecThrottle ==
    /\ InitSpecThrottle
    /\ [][NextThrottle]_vars
    /\ WF_vars(ThrottleReopens)
    /\ WF_vars(TimePasses)

\* the login page and the nav link in use
InitSpecLogin ==
    /\ InitEvents
    /\ PrefsUnused
    /\ AppUnused
    /\ FiltersUnused
    /\ TimersUnused
    /\ InitLogin

SpecLogin == InitSpecLogin /\ [][NextLogin]_vars

-----------------------------------------------------------------------------
(* EventsApi.getEvents: properties *)

\* invocation c makes its first step (the call itself) in this step
Enters(c) == pc[c] = "idle" /\ pc'[c] # "idle"

\* invocation c is past the cache test on the miss side
Missed(c) == pc[c] \in {"primary", "fallback", "return130", "return140", "throw143"}

\* invocation c has ended
Ended(c) == pc[c] \in {"return122", "return130", "return140", "throw143"}

\* invocation c has stored a list (it left by one of the two storing returns)
Refreshed(c) == pc[c] \in {"return130", "return140"}

\* the primary fetch of c has settled with a failure: the fetch was rejected,
\* the status was not a success, or the body did not parse
PrimaryFailed(c) ==
    \/ primaryResp[c].kind \in {"networkError", "badBody"}
    \/ primaryResp[c].kind = "json" /\ ~primaryResp[c].ok

\* the fallback fetch of c has settled with a failure: the fetch was rejected
\* or the body did not parse
FallbackFailed(c) == fallbackResp[c].kind \in {"networkError", "badBody"}

\* C1: a call entered while a list stored by an earlier successful call is
\* less than 300000 ms old returns that list, issues no fetch and leaves
\* eventsCache and lastFetch alone; every other call starts the primary fetch.
C1_FreshCacheServed ==
    [][\A c \in Calls : Enters(c) =>
         IF cacheWriter # 0 /\ clock - lastFetch < 300000
         THEN /\ pc'[c] = "return122"
              /\ result'[c] = eventsCache
              /\ primaryFetches'[c] = 0 /\ fallbackFetches'[c] = 0
              /\ eventsCache' = eventsCache /\ lastFetch' = lastFetch
         ELSE /\ pc'[c] = "primary"
              /\ primaryFetches'[c] = 1]_vars

\* a call served from a stored list that was 299999 ms old
C1_Witness ==
    \E c \in Calls :
        /\ pc[c] = "return122"
        /\ now[c] - lastFetch = 299999
        /\ result[c] = eventsCache
        /\ primaryFetches[c] = 0

\* C2 (as stated): a cache-miss call that has ended issued exactly one fetch,
\* primary or fallback, never both and never none.
C2_ExactlyOneFetch ==
    \A c \in Calls : (Missed(c) /\ Ended(c)) =>
        primaryFetches[c] + fallbackFetches[c] = 1

\* C2 (amended): a cache-miss call issues the primary fetch exactly once, and
\* the fallback fetch exactly once if that primary fetch failed and not at all
\* otherwise; so never none, and both exactly when the primary failed.
C2_PrimaryThenFallback ==
    \A c \in Calls : Missed(c) =>
        /\ primaryFetches[c] = 1
        /\ fallbackFetches[c] = (IF PrimaryFailed(c) THEN 1 ELSE 0)

\* a miss that ended having issued both fetches
C2_Witness ==
    \E c \in Calls :
        /\ Ended(c) /\ PrimaryFailed(c)
        /\ primaryFetches[c] = 1 /\ fallbackFetches[c] = 1

\* C3: no step of an invocation on the failing path (the miss, the failed
\* primary, the failed fallback) changes eventsCache or lastFetch, whether
\* the cache was never filled or holds a stale list.
C3_FailedRefreshKeepsCache ==
    [][\A c \in Calls :
         (pc'[c] # pc[c] /\ pc'[c] \in {"primary", "fallback", "throw143"}) =>
             (eventsCache' = eventsCache /\ lastFetch' = lastFetch)]_vars

\* a call that found a stale list, failed twice, and the list is still there
C3_Witness ==
    \E c \in Calls :
        /\ pc[c] = "throw143"
        /\ eventsCache # null
        /\ cacheWriter # c
        /\ storedAt <= now[c]
        /\ now[c] - lastFetch >= 300000

\* C4: the stored pair is the initial (null, 0), or the list and the
\* timestamp of one and the same invocation.
C4_PairFromOneInvocation ==
    \/ /\ eventsCache = null /\ lastFetch = 0
       /\ cacheWriter = 0 /\ stampWriter = 0
    \/ /\ cacheWriter \in Calls
       /\ stampWriter = cacheWriter
       /\ Refreshed(cacheWriter)
       /\ eventsCache = result[cacheWriter]
       /\ lastFetch = now[cacheWriter]

\* the later call stored while the earlier call was still waiting
C4_Witness ==
    \E c, d \in Calls :
        /\ c < d
        /\ pc[c] \in {"primary", "fallback"}
        /\ cacheWriter = d

C6_WindowFromCompletion ==
    [][/\ cacheWriter' # 0 => lastFetch' = storedAt'
       /\ \A c \in Calls :
            (Enters(c) /\ cacheWriter # 0 /\ clock - storedAt < 300000) =>
                (pc'[c] = "return122" /\ primaryFetches'[c] = 0)]_vars

\* C7: a call that has ended raised if and only if it missed and both its
\* fetches failed; a failed primary followed by a fallback that succeeded
\* returns the fallback's list; a failed primary was fetched exactly once.
C7_RaisesIffBothFail ==
    \A c \in Calls : Ended(c) =>
        /\ pc[c] = "throw143" <=>
              (primaryFetches[c] >= 1 /\ PrimaryFailed(c) /\ FallbackFailed(c))
        /\ (PrimaryFailed(c) /\ fallbackResp[c].kind = "json") =>
              (pc[c] = "return140" /\ result[c] = fallbackResp[c].json)
        /\ PrimaryFailed(c) => primaryFetches[c] = 1

\* a call whose primary failed and whose fallback supplied the list
C7_Witness ==
    \E c \in Calls :
        /\ pc[c] = "return140"
        /\ PrimaryFailed(c)
        /\ fallbackResp[c].kind = "json"
        /\ result[c] = fallbackResp[c].json

\* C8: a call entered while another call's fetch is pending and the cache is
\* a miss starts its own primary fetch beside the pending one; and every
\* invocation whose fetch succeeds stores its own list and timestamp over
\* whatever is there, so the pair is that of the call that stored last.
C8_NoDeduplication ==
    [][\A c \in Calls :
         /\ (/\ Enters(c)
             /\ \E d \in Calls : pc[d] \in {"primary", "fallback"}
             /\ ~(cacheWriter # 0 /\ clock - lastFetch < 300000)) =>
               /\ pc'[c] = "primary" /\ primaryFetches'[c] = 1
               /\ \A d \in Calls : pc[d] \in {"primary", "fallback"} => pc'[d] = pc[d]
         /\ (pc'[c] # pc[c] /\ pc'[c] \in {"return130", "return140"}) =>
               (eventsCache' = result'[c] /\ lastFetch' = now[c])]_vars

\* two calls overlapped, both stored, and the one that was made first stored
\* last: the cache holds its list and its (older) timestamp
C8_Witness ==
    \E c, d \in Calls :
        /\ c < d /\ now[c] < now[d]
        /\ Refreshed(c) /\ Refreshed(d)
        /\ cacheWriter = c
        /\ eventsCache = result[c] /\ result[c] # result[d]
        /\ lastFetch = now[c]

-----------------------------------------------------------------------------
(* UserPreferencesApi: properties *)

\* C9: getPreferences throws nothing; on a malformed entry, on a read of
\* storage that throws and on no entry it returns exactly the default blob;
\* on a stored object it returns the defaults overridden key by key by the
\* stored keys.
C9_GetPreferencesMerge ==
    lastOp = "getPreferences" =>
        /\ ~thrown
        /\ IF readFailed \/ prefsEntry.kind \in {"malformed", "absent", "empty"}
           THEN returned = [favorites |-> <<>>, theme |-> "light", language |-> "en",
                            notifications |-> TRUE, searchHistory |-> <<>>]
           ELSE /\ DOMAIN returned = Keys \cup DOMAIN prefsEntry.obj
                /\ \A k \in DOMAIN prefsEntry.obj : returned[k] = prefsEntry.obj[k]
                /\ "favorites" \notin DOMAIN prefsEntry.obj => returned.favorites = <<>>
                /\ "theme" \notin DOMAIN prefsEntry.obj => returned.theme = "light"
                /\ "language" \notin DOMAIN prefsEntry.obj => returned.language = "en"
                /\ "notifications" \notin DOMAIN prefsEntry.obj => returned.notifications = TRUE
                /\ "searchHistory" \notin DOMAIN prefsEntry.obj => returned.searchHistory = <<>>

\* getPreferences read a malformed entry and returned the default blob
C9_Witness ==
    /\ lastOp = "getPreferences"
    /\ prefsEntry.kind = "malformed"
    /\ ~readFailed
    /\ ~thrown
    /\ returned = [favorites |-> <<>>, theme |-> "light", language |-> "en",
                   notifications |-> TRUE, searchHistory |-> <<>>]

\* C10: no call of a UserPreferencesApi method throws to its caller, whatever
\* the stored entry is and whichever reads and writes of storage throw; and a
\* call whose write threw leaves the stored entry as it was.
C10_NeverThrows ==
    [][/\ ~thrown'
       /\ writeFailed' => prefsEntry' = prefsEntry]_vars

\* a writing method ran on a malformed entry, its write threw, the caller
\* saw no exception and the entry is as it was
C10_Witness ==
    /\ lastOp \in {"savePreferences", "addToFavorites", "removeFromFavorites",
                   "addSearchToHistory", "clearSearchHistory"}
    /\ prefsEntry.kind = "malformed"
    /\ writeFailed
    /\ ~thrown

\* the keys no favorites method may change, and the keys no history method may
OutsideFavorites == Keys \ {"favorites"}
OutsideHistory == Keys \ {"searchHistory"}

\* key k reads the same from getPreferences() before and after the step
Kept(k) == View(prefsEntry')[k] = View(prefsEntry)[k]

\* the storage of the step behaves as one store: it does not throw on a read
\* (line 349) and then take the write of the same call (line 364); a store
\* that is denied throws on both, a full one on the write alone
OneStore == readFailed' => writeFailed'

\* C11: a call changes only the keys it is about, as getPreferences() shows
\* them before and after: savePreferences(p) keeps every key that is not in
\* p, addToFavorites and removeFromFavorites keep theme, language,
\* notifications and searchHistory, addSearchToHistory and clearSearchHistory
\* keep favorites, theme, language and notifications.
C11_WritesKeepOtherKeys ==
    [][OneStore =>
        /\ lastOp' = "savePreferences" =>
               \A k \in Keys \ DOMAIN lastArg' : Kept(k)
        /\ lastOp' \in {"addToFavorites", "removeFromFavorites"} =>
               \A k \in OutsideFavorites : Kept(k)
        /\ lastOp' \in {"addSearchToHistory", "clearSearchHistory"} =>
               \A k \in OutsideHistory : Kept(k)]_vars

\* savePreferences({theme: "dark"}) was stored over preferences whose
\* language and favorites are not the defaults, and they are still there
C11_Witness ==
    /\ lastOp = "savePreferences"
    /\ ~readFailed /\ ~writeFailed
    /\ lastArg = [theme |-> "dark"]
    /\ View(prefsEntry).theme = "dark"
    /\ View(prefsEntry).language = "is"
    /\ View(prefsEntry).favorites # <<>>

\* no element of list occurs in it twice
NoDup(list) == \A i, j \in 1..Len(list) : list[i] = list[j] => i = j

\* getFavorites(), lines 401-404, on a store holding entry
Favorites(entry) == View(entry).favorites

\* C12: the favorites list, free of duplicates at the start, never holds an
\* id twice whatever is called; and addToFavorites(id) on a list that holds id
\* already (a second add) leaves the list, and the stored entry, as they were.
C12_FavoritesIsSet ==
    /\ []NoDup(Favorites(prefsEntry))
    /\ [][OneStore /\ lastOp' = "addToFavorites"
             /\ Includes(Favorites(prefsEntry), lastArg')
          => prefsEntry' = prefsEntry]_vars

\* addToFavorites("e1") ran on a list of two ids that held e1 already and
\* the list is as it was
C12_Witness ==
    /\ lastOp = "addToFavorites"
    /\ ~readFailed /\ ~writeFailed
    /\ lastArg = "e1"
    /\ Favorites(prevEntry) = <<"e2", "e1">>
    /\ Favorites(prefsEntry) = <<"e2", "e1">>

\* list with every occurrence of x left out, the rest in their order
Others(list, x) == SelectSeq(list, LAMBDA y : y # x)

C13_WitnessAbsent ==
    /\ lastOp = "removeFromFavorites"
    /\ ~readFailed /\ ~writeFailed
    /\ lastArg = "e2"
    /\ Favorites(prevEntry) = <<"e1">>
    /\ View(prefsEntry) = View(prevEntry)

\* entry x of the history was searched for later than entry y
SearchedLater(x, y) == Pos(recency, x) < Pos(recency, y)

\* C14: from an empty history, whatever addSearchToHistory and
\* clearSearchHistory calls were made, the stored searchHistory has at most
\* 10 entries, holds no entry twice, and of any two entries the one whose
\* latest addSearchToHistory call came later is nearer the front.
C14_HistoryInvariant ==
    LET h == SearchHistory(prefsEntry) IN
    /\ Len(h) <= 10
    /\ NoDup(h)
    /\ \A i, j \in 1..Len(h) : i < j => SearchedLater(h[i], h[j])

\* eleven queries were searched for, "a" once more before the eleventh: the
\* history holds ten of them, "a" second, and the oldest other one is gone
C14_Witness ==
    LET h == SearchHistory(prefsEntry) IN
    /\ Len(recency) = 11
    /\ Len(h) = 10
    /\ h[1] = <<"k">> /\ h[2] = <<"a">>
    /\ ~Includes(h, <<"b">>)

\* the first n entries of list
FirstN(list, n) == [i \in 1..(IF Len(list) < n THEN Len(list) ELSE n) |-> list[i]]

\* query q is empty or made of spaces alone
Blank(q) == \A i \in 1..Len(q) : q[i] = " "

\* C15: addSearchToHistory(query) with an empty or whitespace-only query
\* leaves the stored entry as it was; with any other query the new history is
\* [query] followed by the previous history without the entries equal to
\* query, cut to its first 10 entries.
C15_AddSearchToHistory ==
    [][lastOp' = "addSearchToHistory" =>
         IF Blank(lastArg')
         THEN prefsEntry' = prefsEntry
         ELSE SearchHistory(prefsEntry') =
                  FirstN(<<lastArg'>> \o Others(SearchHistory(prefsEntry), lastArg'),
                         10)]_vars

\* an eleventh query was added to a history of ten: it is in front and the
\* oldest entry was dropped
C15_Witness ==
    LET before == SearchHistory(prevEntry)
        after == SearchHistory(prefsEntry)
    IN  /\ lastOp = "addSearchToHistory"
        /\ Len(before) = 10
        /\ ~Includes(before, lastArg)
        /\ Len(after) = 10
        /\ after[1] = lastArg
        /\ ~Includes(after, before[10])

\* a whitespace-only query was passed on a store that holds no entry yet,
\* and none was written
C15_WitnessBlank ==
    /\ lastOp = "addSearchToHistory"
    /\ lastArg = <<" ", " ">>
    /\ prevEntry = AbsentEntry
    /\ prefsEntry = AbsentEntry

-----------------------------------------------------------------------------
(* The two favorites stores: properties *)

\* the list under 'venuu-favorites' as getFavorites reads it
AppFavorites(entry) == getFavorites(entry, FALSE).value

\* C16: no VenuuApp favorites method changes the 'venuu-preferences' entry and
\* no UserPreferencesApi method changes the 'venuu-favorites' entry; what
\* isFavorite answers is read from the 'venuu-favorites' list and what
\* isFavorited answers from the favorites of 'venuu-preferences'.
C16_StoresIndependent ==
    [][/\ AppStep => prefsEntry' = prefsEntry
       /\ PrefsStep => favoritesEntry' = favoritesEntry
       /\ AppStep /\ appOp' = "isFavorite" /\ ~appThrown' =>
              \E id \in EventIds :
                  appReturned' = Shown(Includes(AppFavorites(favoritesEntry), id))
       /\ PrefsStep /\ lastOp' = "isFavorited" =>
              returned' = Includes(Favorites(prefsEntry), lastArg')]_vars

\* e1 was toggled on in the app and e2 added through the preferences: the
\* two lists differ, and each method answers from its own
C16_Witness ==
    /\ appOp = "toggleFavorite" /\ ~appThrown
    /\ favoritesEntry = ListEntry(<<"e1">>)
    /\ lastOp = "addToFavorites" /\ lastArg = "e2"
    /\ Favorites(prefsEntry) = <<"e2">>
    /\ isFavorite(favoritesEntry, "e2", FALSE).value = "false"
    /\ isFavorited(prefsEntry, "e2", FALSE).value = TRUE

-----------------------------------------------------------------------------
(* Filtering, searching and sorting the events: properties *)

\* searchParams with its query replaced
WithQuery(searchParams, query) == [searchParams EXCEPT !.query = query]

\* neither select of VenuuApp filters
NoSelects == currentFilters.category = <<>> /\ currentFilters.location = <<>>

\* C17: a text query only narrows. The events applyFilters leaves in
\* filteredEvents are among those it selects with the empty query under the
\* same category and location (all of them when the query is empty, and every
\* loaded event when no select filters either), and for all parameters of
\* searchEvents the events selected with a query are among those selected
\* with the same parameters and no query; searchEvents() of no parameters
\* gives the whole list.
C17_QueryOnlyNarrows ==
    LET unsearched == Elems(Filtered(loadedEvents, <<>>, currentFilters)) IN
    /\ Elems(filteredEvents) \subseteq unsearched
    /\ searchQuery = <<>> => Elems(filteredEvents) = unsearched
    /\ searchQuery = <<>> /\ NoSelects => Elems(filteredEvents) = Elems(loadedEvents)
    /\ \A searchParams \in ParamsTried, value \in InputValues :
           Elems(searchEvents(loadedEvents, WithQuery(searchParams, value)))
               \subseteq Elems(searchEvents(loadedEvents, WithQuery(searchParams, <<>>)))
    /\ searchEvents(loadedEvents, NoParams) = loadedEvents

\* "Mu" was typed over the list a, b, c with no select set: a (a category)
\* and b (its description) are left, c is not
C17_Witness ==
    /\ Elems(loadedEvents) = {EventA, EventB, EventC}
    /\ searchQuery = <<"m", "u">>
    /\ NoSelects
    /\ Elems(filteredEvents) = {EventA, EventB}

\* the dated events of list are in ascending order of date
DateAscending(list) ==
    \A i, j \in 1..Len(list) :
        i < j => ~GreaterThan(Time(list[i]), Time(list[j]))

\* C18: with an empty query, no category or location filter and the date
\* sort ascending, applyFilters leaves in filteredEvents a permutation of the
\* event list (same length, same events) that is in ascending order of
\* resolved date, whatever the list, events without date included.
C18_SortedByDate ==
    [][(searchQuery' = <<>> /\ currentFilters' = NoFilters) =>
           /\ Len(filteredEvents') = Len(loadedEvents)
           /\ Elems(filteredEvents') = Elems(loadedEvents)
           /\ DateAscending(filteredEvents')]_vars

\* the categories an event counts under: the category list, or the one text
\* of category, else of event_category, else ""
ResolvedCategories(event) ==
    IF event.category.isArray THEN event.category.list
    ELSE IF event.category.text # <<>> THEN <<event.category.text>>
    ELSE <<event.event_category>>

\* C19: under a non-empty category filter c an event is kept if and only if
\* c is one of its resolved categories, by VenuuApp.applyFilters (no query,
\* no location filter) and by EventsApi.searchEvents({category: c}) alike.
C19_CategoryFilter ==
    /\ (currentFilters.category # <<>> /\ searchQuery = <<>>
            /\ currentFilters.location = <<>>) =>
           \A event \in Elems(loadedEvents) :
               event \in Elems(filteredEvents)
                   <=> Includes(ResolvedCategories(event), currentFilters.category)
    /\ \A c \in CategoryChoices \ {<<>>} :
           \A event \in Elems(loadedEvents) :
               event \in Elems(searchEvents(loadedEvents,
                                            [NoParams EXCEPT !.category = c]))
                   <=> Includes(ResolvedCategories(event), c)

\* the day an event counts as being on: the earliest of all for an event
\* whose resolved date is empty or unparsable
Day(event) == IF Time(event).nan THEN 0 ELSE Time(event).n

\* C20: searchEvents with a start and/or end bound (and no other parameter)
\* keeps an event if and only if its resolved date is on or after the start
\* bound, if given, and on or before the end bound, if given; an event
\* without start and date is not kept when a start bound is given.
C20_DateRange ==
    (/\ search.called
     /\ search.params.startDate # "" \/ search.params.endDate # ""
     /\ search.params.query = <<>>
     /\ search.params.category = <<>>
     /\ search.params.location = <<>>) =>
        \A event \in Elems(loadedEvents) :
            event \in Elems(search.result)
                <=> /\ search.params.startDate # ""
                        => Day(event) >= DateOf(search.params.startDate).n
                    /\ search.params.endDate # ""
                        => Day(event) <= DateOf(search.params.endDate).n

\* list is in ascending order of Day: the events without a parsable date
\* first, the dated ones behind them by date
DayAscending(list) ==
    \A i, j \in 1..Len(list) : i < j => Day(list[i]) <= Day(list[j])

\* C21: the date sort of applyFilters takes an event without a parsable date
\* as having one fixed, earliest key: after every handler that leaves the
\* sort key 'date' and the order ascending, filteredEvents is in ascending
\* order of that key, the undated events before all dated ones.
C21_UndatedEarliest ==
    [][(currentFilters'.sort = "date" /\ currentFilters'.dateOrder = "asc")
           => DayAscending(filteredEvents')]_vars

\* the text rule: the lower-cased query is part of the lower-cased resolved
\* title, of the description, of the resolved location, or of one resolved
\* category
TextRule(event, query) ==
    \/ Contains(toLowerCase(Title(event)), query)
    \/ Contains(toLowerCase(event.description), query)
    \/ Contains(toLowerCase(Location(event)), query)
    \/ \E i \in 1..Len(ResolvedCategories(event)) :
           Contains(toLowerCase(ResolvedCategories(event)[i]), query)

\* C22: under a non-empty query an event is kept if and only if the text rule
\* holds of it, by VenuuApp.applyFilters (no category or location filter) and
\* by EventsApi.searchEvents({query}) alike; a query that runs across two
\* categories of an event does not keep it.
C22_TextMatching ==
    /\ (searchQuery # <<>> /\ NoSelects) =>
           \A event \in Elems(loadedEvents) :
               event \in Elems(filteredEvents) <=> TextRule(event, searchQuery)
    /\ \A value \in InputValues \ {<<>>} :
           \A event \in Elems(loadedEvents) :
               event \in Elems(searchEvents(loadedEvents, WithQuery(NoParams, value)))
                   <=> TextRule(event, toLowerCase(value))

-----------------------------------------------------------------------------
(* The derived queries of EventsApi: properties *)

\* C23: for every event list and every non-empty category c,
\* getEventsByCategory(c) resolves with the list, order included, that
\* searchEvents({category: c}) resolves with.
C23_ByCategoryAsSearch ==
    derived.op = "getEventsByCategory" =>
        derived.result =
            searchEvents(loadedEvents, [NoParams EXCEPT !.category = derived.category])

\* the events of list dated today or later
UpcomingEvents(list, today) ==
    {event \in Elems(list) : ~Time(event).nan /\ Time(event).n >= today}

\* C24: getFeaturedEvents(limit) resolves with at most limit events, each an
\* event of the list with a parsable resolved date not before the time of the
\* call, each once, in ascending order of date; they are the limit earliest
\* such events (all of them when there are fewer): no upcoming event left
\* out is earlier than a returned one.
C24_FeaturedEvents ==
    derived.op = "getFeaturedEvents" =>
        LET r == derived.result
            upcoming == UpcomingEvents(loadedEvents, derived.today)
        IN  /\ Len(r) <= derived.limit
            /\ Elems(r) \subseteq upcoming
            /\ NoDup(r)
            /\ \A i, j \in 1..Len(r) : i < j => Time(r[i]).n <= Time(r[j]).n
            /\ Len(r) = IF Cardinality(upcoming) < derived.limit
                        THEN Cardinality(upcoming) ELSE derived.limit
            /\ \A left \in upcoming \ Elems(r) :
                   \A event \in Elems(r) : Time(event).n <= Time(left).n

\* getFeaturedEvents(1) on the day of b's date, over a list that has a (later)
\* before b and the undated c, resolved with b alone
C24_Witness ==
    /\ derived.op = "getFeaturedEvents"
    /\ derived.limit = 1
    /\ derived.today = 1
    /\ loadedEvents = <<EventA, EventC, EventB>>
    /\ derived.result = <<EventB>>

-----------------------------------------------------------------------------
(* EventsApi.getEvents: termination *)

\* invocation c awaits a fetch
InFlight(c) == pc[c] \in {"primary", "fallback"}

\* invocation c returned a list
ReturnedList(c) == pc[c] \in {"return122", "return130", "return140"}

\* invocation c returned or raised
Settled(c) == ReturnedList(c) \/ pc[c] = "throw143"

\* C25: when every started fetch resolves or rejects in the end, every
\* getEvents invocation that was made in the end returns a list or raises
\* 'Unable to load events data', having issued at most one primary and at
\* most one fallback fetch; and an invocation that awaits a fetch moves on
\* only when that fetch settles, whatever time passes.
C25_Terminates ==
    /\ \A c \in Calls : (pc[c] # "idle") ~> Settled(c)
    /\ [](\A c \in Calls :
             /\ primaryFetches[c] <= 1
             /\ fallbackFetches[c] <= 1
             /\ ReturnedList(c) => result[c] # null)
    /\ [][\A c \in Calls :
             (InFlight(c) /\ pc'[c] # pc[c]) =>
                 \/ pc[c] = "primary" /\ primaryResp'[c] \in Responses
                 \/ pc[c] = "fallback" /\ fallbackResp'[c] \in Responses]_vars

\* the first invocation raised after both its fetches failed, and the second
\* returned the list its fallback fetch gave
C25_Witness ==
    /\ pc[1] = "throw143"
    /\ primaryFetches[1] = 1 /\ fallbackFetches[1] = 1
    /\ pc[2] = "return140"
    /\ primaryFetches[2] = 1 /\ fallbackFetches[2] = 1

-----------------------------------------------------------------------------
(* VenuuApp's filter state: properties *)

\* C26: filteredEvents holds events of the event list alone, each at most
\* once, in every state; after every handler (search input, search button,
\* category, location, sort, date order, clear) it is a result of filtering
\* and sorting the whole event list under the searchQuery and currentFilters
\* the handler left; and clearAllFilters leaves the query '' and the filters
\* category '', location '', sort 'date', dateOrder 'asc'.
C26_ControllerConsistent ==
    /\ [](Elems(filteredEvents) \subseteq Elems(loadedEvents) /\ NoDup(filteredEvents))
    /\ [][filteredEvents' \in applyFilters(loadedEvents', searchQuery', currentFilters')]_vars
    /\ [](cleared =>
             /\ searchQuery = <<>>
             /\ currentFilters = [category |-> <<>>, location |-> <<>>,
                                  sort |-> "date", dateOrder |-> "asc"])

\* the filters were cleared on a page that has events a and b, and both are
\* shown again
C26_Witness ==
    /\ cleared
    /\ Elems(loadedEvents) = {EventA, EventB}
    /\ Elems(filteredEvents) = {EventA, EventB}

\* list is in ascending order of resolved title / of resolved location
TitleAscending(list) ==
    \A i, j \in 1..Len(list) :
        i < j => localeCompare(Title(list[i]), Title(list[j])) <= 0
LocationAscending(list) ==
    \A i, j \in 1..Len(list) :
        i < j => localeCompare(Location(list[i]), Location(list[j])) <= 0

\* the dated events of list are in descending order of date
DateDescending(list) ==
    \A i, j \in 1..Len(list) :
        i < j => ~LessThan(Time(list[i]), Time(list[j]))

\* filters with the other date order
Toggled(filters) ==
    [filters EXCEPT !.dateOrder = IF @ = "asc" THEN "desc" ELSE "asc"]

\* C27: the date-order flag orders the date sort alone. After every handler
\* that leaves the sort key 'name' (or 'location'), filteredEvents is in
\* ascending order of resolved title (location) and is the one list
\* applyFilters gives under the other date order as well; after every handler
\* that leaves the sort key 'date' with the order 'desc', filteredEvents is in
\* descending order of date, whatever the events.
C27_DateOrderFlag ==
    [][/\ currentFilters'.sort = "name" => TitleAscending(filteredEvents')
       /\ currentFilters'.sort = "location" => LocationAscending(filteredEvents')
       /\ currentFilters'.sort \in {"name", "location"} =>
              applyFilters(loadedEvents, searchQuery', Toggled(currentFilters'))
                  = {filteredEvents'}
       /\ (currentFilters'.sort = "date" /\ currentFilters'.dateOrder = "desc") =>
              DateDescending(filteredEvents')]_vars

-----------------------------------------------------------------------------
(* Utils.debounce and Utils.throttle: properties *)

\* the arguments of the entries of a log of calls or invocations, in order
Args(log) == [i \in 1..Len(log) |-> log[i].args]

\* call i of log calls opens a burst: no call came less than ms before it
OpensBurst(calls, i, ms) == i = 1 \/ calls[i].at - calls[i - 1].at >= ms

\* call i closes a burst: no call came less than ms after it
ClosesBurst(calls, i, ms) ==
    i = Len(calls) \/ calls[i + 1].at - calls[i].at >= ms

\* call i opens a run: it found no timeout set. It closes one: the next call
\* found none
OpensRun(calls, i) == ~calls[i].pending
ClosesRun(calls, i) == i = Len(calls) \/ ~calls[i + 1].pending

\* every invocation of func was made by the timer of a call, wait ms or more
\* after that call and before any later call
OnlyAfterWait ==
    \A k \in 1..Len(debounced.invoked) :
        LET made == debounced.invoked[k] IN
        /\ made.by = "timer"
        /\ made.at >= debounced.calls[made.args].at + debounceWait
        /\ \A i \in 1..Len(debounced.calls) :
               i > made.args => debounced.calls[i].at >= made.at

\* C28 as stated: without immediate, func is invoked only wait ms or more
\* after the most recent call, and once no timeout is left it has been invoked
\* exactly once for every burst of calls (calls less than wait ms apart), with
\* the arguments of the burst's last call; with immediate it is invoked by
\* the first call of every burst and by nothing else.
C28_DebounceBursts ==
    LET calls == debounced.calls IN
    IF ~debounced.immediate
    THEN /\ OnlyAfterWait
         /\ ~debounced.timeout.set =>
                Args(debounced.invoked) =
                    SelectSeq(Args(calls),
                              LAMBDA i : ClosesBurst(calls, i, debounceWait))
    ELSE /\ \A k \in 1..Len(debounced.invoked) : debounced.invoked[k].by = "call"
         /\ Args(debounced.invoked) =
                SelectSeq(Args(calls), LAMBDA i : OpensBurst(calls, i, debounceWait))

\* C28 amended: a call replaces the timeout of the call before it whether or
\* not its time has come, so the calls fall into runs, a run ending when the
\* timeout runs. Calls less than wait ms apart are in one run. Without
\* immediate, func is invoked only by a timeout, wait ms or more after the
\* most recent call, and once no timeout is left it has been invoked exactly
\* once for every run, with the arguments of the run's last call; with
\* immediate it is invoked by the first call of every run and by nothing
\* else. A timeout that is set runs in the end.
C28_DebounceRuns ==
    /\ [](LET calls == debounced.calls IN
          /\ \A i \in 2..Len(calls) :
                 calls[i].at - calls[i - 1].at < debounceWait => calls[i].pending
          /\ IF ~debounced.immediate
             THEN /\ OnlyAfterWait
                  /\ ~debounced.timeout.set =>
                         Args(debounced.invoked) =
                             SelectSeq(Args(calls), LAMBDA i : ClosesRun(calls, i))
             ELSE /\ \A k \in 1..Len(debounced.invoked) :
                         debounced.invoked[k].by = "call"
                  /\ Args(debounced.invoked) =
                         SelectSeq(Args(calls), LAMBDA i : OpensRun(calls, i)))
    /\ debounced.timeout.set ~> ~debounced.timeout.set

\* three calls without immediate: the second within wait ms of the first, the
\* third wait ms after the second and before the timeout ran; func was
\* invoked once, with the arguments of the third
C28_Witness ==
    /\ ~debounced.immediate
    /\ ~debounced.timeout.set
    /\ Len(debounced.calls) = 3
    /\ debounced.calls[2].at - debounced.calls[1].at < debounceWait
    /\ debounced.calls[3].at - debounced.calls[2].at = debounceWait
    /\ debounced.calls[3].pending
    /\ Args(debounced.invoked) = <<3>>

\* two runs with immediate: func was invoked by the first and the third call
C28_WitnessImmediate ==
    /\ debounced.immediate
    /\ Len(debounced.calls) = 3
    /\ Args(debounced.invoked) = <<1, 3>>

\* call i of the throttled function came within the window of an invocation:
\* less than limit ms after an earlier call that invoked func
InWindow(calls, i) ==
    \E j \in 1..(i - 1) :
        ~calls[j].pending /\ calls[i].at - calls[j].at < throttleLimit

\* func is invoked by calls alone, at once, and by the calls that found the
\* throttle open
InvokedWhenOpen ==
    /\ \A k \in 1..Len(throttled.invoked) :
           /\ throttled.invoked[k].by = "call"
           /\ throttled.invoked[k].at = throttled.calls[throttled.invoked[k].args].at
    /\ Args(throttled.invoked) =
           SelectSeq(Args(throttled.calls), LAMBDA i : ~throttled.calls[i].pending)

\* C29 as stated: a call of the throttled function invokes func, at once, if
\* and only if func was not invoked through it in the limit ms before; two
\* invocations are limit ms or more apart, and a call inside the window is
\* dropped for good.
C29_ThrottleWindow ==
    /\ InvokedWhenOpen
    /\ \A k \in 2..Len(throttled.invoked) :
           throttled.invoked[k].at - throttled.invoked[k - 1].at >= throttleLimit
    /\ \A i \in 1..Len(throttled.calls) :
           ~throttled.calls[i].pending <=> ~InWindow(throttled.calls, i)

\* C29 amended: a call invokes func, at once, if and only if it finds the
\* throttle open. The throttle closes when an invocation returns (one that
\* throws leaves it open) and opens again when the timer of that invocation
\* has run, limit ms after it or later: a call in the limit ms after an
\* invocation that returned never invokes func, and a later one does unless
\* the timer has not run yet. An invocation comes limit ms or more after the
\* last one that returned, no call is invoked later than it was made, and a
\* throttle that is closed reopens in the end.
C29_ThrottleReopens ==
    /\ [](/\ InvokedWhenOpen
          /\ \A k \in 2..Len(throttled.invoked) :
                 ~throttled.invoked[k - 1].threw =>
                     throttled.invoked[k].at - throttled.invoked[k - 1].at
                         >= throttleLimit
          /\ \A k \in 1..Len(throttled.invoked) :
                 LET made == throttled.invoked[k] IN
                 ~made.threw =>
                     /\ ~throttled.inThrottle => tnow - made.at >= throttleLimit
                     /\ \A i \in 1..Len(throttled.calls) :
                            (i > made.args
                                 /\ throttled.calls[i].at - made.at < throttleLimit)
                                => throttled.calls[i].pending
          /\ throttled.inThrottle <=> throttled.timer.set)
    /\ throttled.inThrottle ~> ~throttled.inThrottle

\* three calls, func returning: the second in the window of the first and
\* dropped, the third limit ms after the first, once the timer had run, and
\* invoked
C29_Witness ==
    /\ Len(throttled.calls) = 3
    /\ throttled.calls[2].pending
    /\ throttled.calls[3].at - throttled.calls[1].at = throttleLimit
    /\ Args(throttled.invoked) = <<1, 3>>
    /\ \A k \in 1..2 : ~throttled.invoked[k].threw

-----------------------------------------------------------------------------
(* The login page and the nav link: properties *)

\* the emails of USERS
UserEmails == {USERS[i].email : i \in 1..Len(USERS)}

\* the trimmed email and password of a submit are both filled in and are
\* those of one entry of USERS, whose email is entry
ValidLogin(event, entry) ==
    /\ Trim(event.email) # <<>>
    /\ Trim(event.password) # <<>>
    /\ \E i \in 1..Len(USERS) :
           /\ USERS[i].email = Trim(event.email)
           /\ USERS[i].password = Trim(event.password)
           /\ entry = USERS[i].email

\* C30: the 'userEmail' entry is absent or the email of an entry of USERS in
\* every state; it is written only by a login submit whose trimmed email and
\* password are both non-empty and those of one entry of USERS (whose email
\* is what is written), and removed only by a click on a nav link that shows
\* 'Logout'; a submit that is incomplete or matches no entry leaves it as it
\* is; and a nav link shows 'Logout' exactly when the entry was present as
\* its page loaded.
C30_LoginStateMachine ==
    /\ [](userEmail \in {NoEmail} \cup UserEmails)
    /\ [](\A t \in Tabs : tabs[t].navText = "Logout" <=> tabs[t].atLoad # NoEmail)
    /\ [][/\ (lastEvent'.stored \/ (userEmail' # userEmail /\ userEmail' # NoEmail)) =>
              /\ lastEvent'.kind = "submit"
              /\ ValidLogin(lastEvent', userEmail')
          /\ (lastEvent'.removed \/ (userEmail' # userEmail /\ userEmail' = NoEmail)) =>
              /\ lastEvent'.kind = "navClick"
              /\ tabs[lastEvent'.tab].navText = "Logout"
          /\ (lastEvent'.kind = "submit"
                  /\ ~\E entry \in UserEmails : ValidLogin(lastEvent', entry)) =>
              /\ userEmail' = userEmail
              /\ ~lastEvent'.stored]_vars

\* a submit of " admin@venuu.is " with "12345" on a site nobody was logged in
\* to stored the email, and the tab shows 'Logout' on index.html
C30_Witness ==
    /\ lastEvent.kind = "submit"
    /\ lastEvent.email = <<" ", "admin@venuu.is", " ">>
    /\ lastEvent.stored
    /\ userEmail = USERS[1].email
    /\ tabs[lastEvent.tab] = PageLoaded("index", USERS[1].email)
    /\ \E t \in Tabs : tabs[t].navText = "Login"

====
